---- MODULE Spec2Model ----
(***************************************************************************)
(* A model of plexsubs: the retry decorator (utils/retry.py) and the       *)
(* subtitle acquisition pipeline (core/subtitle_manager.py).               *)
(*                                                                         *)
(* The specifications of the module, each over its own component with the *)
(* others idle:                                                            *)
(*   SpecRetry  the retry decorator alone, for every configuration and     *)
(*              every behaviour of the wrapped function within the bounds; *)
(*   Spec       one invocation of SubtitleManager.download_subtitles, with *)
(*              its retried download+verify unit;                          *)
(*   SpecScore, SpecRank, SpecSearch  release matching and ranking;        *)
(*   SpecWebhook, SpecWebhookLive  one webhook through handle_event;       *)
(*   SpecVerify  _download_and_verify under its retry wrapper;             *)
(*   SpecAuth, SpecRequest  the provider's token and its requests;         *)
(*   SpecProviderDownload  OpenSubtitlesProvider.download;                 *)
(*   SpecPool   the handler's thread pool;                                 *)
(*   SpecRace   two invocations for one file at once;                      *)
(*   SpecAgain  two invocations for one file in a row;                     *)
(*   SpecExtract  extract_release_info.                                    *)
(***************************************************************************)
EXTENDS Integers, Sequences, FiniteSets, TLC

VARIABLES
    \* ---- retry decorator (utils/retry.py) ----
    rpc,        \* "setup" | "ready" | "loop" | "done": position of the wrapper
    rcfg,       \* the decorator's arguments and the kind of wrapped function
    attempt,    \* the loop variable of `for attempt in range(max_retries)`
    rlog,       \* what the wrapper did, in order: calls, callbacks, sleeps
    routcome,   \* how the call of the wrapper ended
    \* ---- subtitle acquisition (core/subtitle_manager.py) ----
    ppc,         \* "idle" | "lang" | "download" | "done": position in download_subtitles
    settings,    \* self.settings: subtitles_languages, languages_list and the switches
    fs,          \* the subtitle files beside the media file: path -> content
    fs0,         \* fs when download_subtitles was called
    existing,    \* the dict of _get_existing_subtitles: language -> path
    li,          \* the language loop of download_subtitles (1-based; i + 1)
    all_results, \* _try_download: the sorted candidates of the latest search
    ci,          \* _try_download: position of the download loop in all_results
    dattempt,    \* the retry wrapper's attempt for _download_and_verify
    result,      \* the dict download_subtitles returns
    searches,    \* provider.search calls so far: <<provider, language index, raised>>
    downloaded,  \* provider.download calls so far: {<<language index, candidate id>>}
    langStatus,  \* how _try_download ended for each language tried so far
    \* ---- release matching (core/release_matcher.py) ----
    spc,                  \* "idle" | "loop" | "done": position in calculate_match_score
    subtitle_release,     \* argument: the release label of the subtitle
    subtitle_filename,    \* argument: the file name of the subtitle
    media_release_groups, \* argument: the release tokens of the media file
    combined,             \* f"{subtitle_release} {subtitle_filename}".upper()
    group_i,              \* position of `for group in media_release_groups`
    matches,              \* the counter of the loop
    score_out,            \* the returned pair (score, is_perfect)
    \* ---- ranking (core/subtitle_manager.py, all_results.sort) ----
    rkpc,                 \* "idle" | "done": position of the sort
    rank_in,              \* all_results before the sort, in discovery order
    rank_out,             \* all_results after the sort
    \* ---- webhook handler (plex/webhook.py) ----
    hpc,             \* position in handle_event: "idle" | "received" | "media" |
                     \* "acquire" | "session" | "default" | "done"
    payload,         \* what payload_str holds
    auto_select,     \* self.settings.subtitles_auto_select
    plex_calls,      \* the calls of handle_event on self.plex, with what they returned
    session_attempt, \* the retry wrapper's attempt for _try_set_session_subtitle
    session_waits,   \* the sleeps of that wrapper, in seconds
    response,        \* what handle_event returns
    \* ---- _download_and_verify under its retry wrapper (core/subtitle_manager.py) ----
    vpc,             \* "idle" | "run" | "returned"
    vfile,           \* what is at output_path
    vattempt,        \* the retry wrapper's attempt
    vlog,            \* the executions so far: what each called and left
    vreturn,         \* how the wrapped call ended: "none" | "True" | "False" | "raised"
    \* ---- token acquisition (providers/opensubtitles.py) ----
    apc,             \* per caller: position in _authenticate
    token,           \* self.token: 0 for None, k for the token of the k-th login
    token_expiry,    \* self._token_expiry
    token_lock,      \* self._token_lock: 0 when free, else the caller holding it
    now,             \* time.time()
    logins,          \* the login requests issued, in order
    auth_result,     \* per caller: what its last call of _authenticate returned
    \* ---- OpenSubtitlesProvider.search and the ranking of what it returns ----
    sepc,            \* "idle" | "call" | "returned" | "ranked"
    release_groups,  \* the release_groups argument of search
    api_rows,        \* data["data"] of the API's answer
    search_results,  \* the SubtitleResults, as returned and then as ranked
    has_perfect_match, \* has_perfect_match of _try_download
    \* ---- the worker pool of WebhookHandler (webhook.py, _run_in_executor) ----
    wpc,              \* per webhook: "loop" | "queued" | "running" | "inline" | "replied"
    wcall,            \* per webhook: index in BlockingCalls of the call it is at
    work_queue,       \* the work queue of self._executor: webhooks whose call waits
    threads,          \* per worker thread: the webhook whose call it runs, or 0
    ran_on,           \* the calls made so far, each with whether a pool thread ran it
    \* ---- two invocations of download_subtitles for one media file, on two pool threads ----
    inv_pc,           \* per invocation: "idle" | "probe" | "download" | "verify" | "remove" | "verified" | "success" | "failed" | "kept"
    inv_attempt,      \* per invocation: attempt of the retry wrapper of _download_and_verify
    inv_matching,     \* subtitles_use_release_matching
    disk,             \* what is at output_path: NoFile or what a download wrote
    last_written,     \* what the latest download wrote to output_path
    \* ---- extract_release_info (release_matcher.py) ----
    xpc,              \* "idle" | "call" | "returned"
    guess,            \* what guessit(filename) gives: a raise, or the fields it found
    release_info,     \* the list extract_release_info returns
    \* ---- OpenSubtitlesProvider._make_request, one call per caller ----
    qpc,              \* per caller: "idle" | "call" | "send" | "returned" | "raised"
    retry_on_auth_error,\* per caller: the argument of the running call
    answers,          \* per caller: the HTTP answers to the requests of its call
    api_token,        \* self.token as the requests use it: 0 is None, k the token of login k
    login_count,      \* the logins made for these calls
    \* ---- OpenSubtitlesProvider.download, one call ----
    dlpc,             \* "idle" | "run" | "returned"
    dl_attempt,       \* attempt of the retry wrapper around _download_with_retry
    dl_log,           \* how each execution of _download_with_retry ended
    dl_file,          \* what is at output_path
    dl_return,        \* "none" | "True" | "False" | "raised": how download ended
    \* ---- two invocations of download_subtitles for one media file, one after the other ----
    invocation,       \* 0 (not modelled) | 1 | 2: which invocation runs
    first_result      \* what the first invocation returned

retryVars == <<rpc, rcfg, attempt, rlog, routcome>>

pipeVars == <<ppc, settings, fs, fs0, existing, li, all_results, ci, dattempt, result,
              searches, downloaded, langStatus>>

scoreVars == <<spc, subtitle_release, subtitle_filename, media_release_groups,
               combined, group_i, matches, score_out>>

rankVars == <<rkpc, rank_in, rank_out>>

hookVars == <<hpc, payload, auto_select, plex_calls, session_attempt, session_waits,
              response>>

verifyVars == <<vpc, vfile, vattempt, vlog, vreturn>>

authVars == <<apc, token, token_expiry, token_lock, now, logins, auth_result>>

searchVars == <<sepc, release_groups, api_rows, search_results, has_perfect_match>>

poolVars == <<wpc, wcall, work_queue, threads, ran_on>>

raceVars == <<inv_pc, inv_attempt, inv_matching, disk, last_written>>

extractVars == <<xpc, guess, release_info>>

requestVars == <<qpc, retry_on_auth_error, answers, api_token, login_count>>

providerDownloadVars == <<dlpc, dl_attempt, dl_log, dl_file, dl_return>>

againVars == <<invocation, first_result>>

vars == <<retryVars, pipeVars, scoreVars, rankVars, hookVars, verifyVars, authVars,
          searchVars,
          poolVars,
          raceVars,
          extractVars,
          requestVars,
          providerDownloadVars,
          againVars>>

\* what the actions of one component leave alone
notRetryVars  == <<pipeVars, scoreVars, rankVars, hookVars, verifyVars, authVars,
                   searchVars,
                   poolVars,
                   raceVars,
                   extractVars,
                   requestVars,
                   providerDownloadVars,
                   againVars>>
notPipeVars   == <<retryVars, scoreVars, rankVars, hookVars, verifyVars, authVars,
                   searchVars,
                   poolVars,
                   raceVars,
                   extractVars,
                   requestVars,
                   providerDownloadVars,
                   againVars>>
notScoreVars  == <<retryVars, pipeVars, rankVars, hookVars, verifyVars, authVars,
                   searchVars,
                   poolVars,
                   raceVars,
                   extractVars,
                   requestVars,
                   providerDownloadVars,
                   againVars>>
notRankVars   == <<retryVars, pipeVars, scoreVars, hookVars, verifyVars, authVars,
                   searchVars,
                   poolVars,
                   raceVars,
                   extractVars,
                   requestVars,
                   providerDownloadVars,
                   againVars>>
notHookVars   == <<retryVars, scoreVars, rankVars, verifyVars, authVars,
                   searchVars,
                   poolVars,
                   raceVars,
                   extractVars,
                   requestVars,
                   providerDownloadVars,
                   againVars>>
notVerifyVars == <<retryVars, pipeVars, scoreVars, rankVars, hookVars, authVars,
                   searchVars,
                   poolVars,
                   raceVars,
                   extractVars,
                   requestVars,
                   providerDownloadVars,
                   againVars>>
notAuthVars   == <<retryVars, pipeVars, scoreVars, rankVars, hookVars, verifyVars,
                   searchVars,
                   poolVars,
                   raceVars,
                   extractVars,
                   requestVars,
                   providerDownloadVars,
                   againVars>>
notSearchVars == <<retryVars, pipeVars, scoreVars, rankVars, hookVars, verifyVars,
                   authVars,
                   poolVars,
                   raceVars,
                   extractVars,
                   requestVars,
                   providerDownloadVars,
                   againVars>>
notPoolVars == <<retryVars, pipeVars, scoreVars, rankVars, hookVars, verifyVars, authVars, searchVars,
                   raceVars,
                   extractVars,
                   requestVars,
                   providerDownloadVars,
                   againVars>>
notRaceVars == <<retryVars, pipeVars, scoreVars, rankVars, hookVars, verifyVars, authVars, searchVars, poolVars,
                   extractVars,
                   requestVars,
                   providerDownloadVars,
                   againVars>>
notExtractVars == <<retryVars, pipeVars, scoreVars, rankVars, hookVars, verifyVars, authVars, searchVars, poolVars, raceVars,
                   requestVars,
                   providerDownloadVars,
                   againVars>>
notRequestVars == <<retryVars, pipeVars, scoreVars, rankVars, hookVars, verifyVars, authVars, searchVars, poolVars, raceVars, extractVars,
                   providerDownloadVars,
                   againVars>>
notProviderDownloadVars == <<retryVars, pipeVars, scoreVars, rankVars, hookVars, verifyVars, authVars, searchVars, poolVars, raceVars, extractVars, requestVars,
                   againVars>>
notAgainVars == <<retryVars, pipeVars, scoreVars, rankVars, hookVars, verifyVars, authVars, searchVars, poolVars, raceVars, extractVars, requestVars, providerDownloadVars>>

----------------------------------------------------------------------------
(* Bounds of the model *)

\* largest max_retries the decorator is configured with
RetryBound == 4

\* largest base_delay (the code takes a float; the model integers)
DelayBound == 2

\* longest configured language list
MaxLangs == 2

\* longest list of release tokens of a media file
MaxGroups == 2

\* longest merged candidate list that is sorted on its own
MaxRank == 3

\* concurrent callers of the provider
NumCallers == 2

\* last instant of the clock
MaxTime == 2

\* TOKEN_EXPIRY_SECONDS, in ticks of the model's clock
TokenLifetime == 2

\* login requests after which no caller starts another call
MaxLogins == 2

\* webhook requests in flight at once
NumWebhooks == 3

\* ThreadPoolExecutor(max_workers=2)
MAX_WORKERS == 2

\* invocations of the pipeline that run at once for one media file
NumInvocations == 2

\* longest list-valued source of a guess
MaxSources == 2

----------------------------------------------------------------------------
(* Subtitle acquisition: data *)

\* the language codes of the model (settings.languages_list draws from them)
LangSet == {"en", "nl"}

\* SUBTITLE_EXTENSIONS, in probe order
SUBTITLE_EXTENSIONS == <<".srt", ".ass", ".ssa", ".vtt">>

\* {media_dir}/{media_name}.{lang}{ext}: one media file, so a path is its
\* language and extension
SubtitlePath(lang, ext) == <<lang, ext>>

Paths == {SubtitlePath(l, SUBTITLE_EXTENSIONS[k]) :
              l \in LangSet, k \in 1..Len(SUBTITLE_EXTENSIONS)}

\* None, as a path
NoPath == <<>>

\* content of a path without a file, and of a file present before the invocation
Absent   == "absent"
Original == "orig"

\* the extensions of the files present before the invocation
InitialExts == {".srt", ".ass"}

\* subtitles_popular_download_threshold (default)
PopularThreshold == 100

\* download counts providers report: below and above the threshold
DownloadCounts == {50, 150}

\* how many candidates one provider search returns
ResultCounts == 0..2

\* self.providers after _init_providers
Providers == <<"opensubtitles">>

\* the decorator of _download_and_verify
DownloadRetry ==
    [max_retries |-> 3, base_delay |-> 1, exceptions |-> {"Exception"},
     on_retry |-> FALSE, is_async |-> FALSE]

\* the dict download_subtitles returns, with the keys it holds
NoResult ==
    [keys |-> {}, success |-> FALSE, existing |-> NoPath, path |-> NoPath,
     language |-> "", provider |-> "", upgraded |-> FALSE]

\* {"success": False}
Failure == [NoResult EXCEPT !.keys = {"success"}]

\* A mutation of KeptExisting: the kept path is not reported.
KeptExistingNoPath(path) == Failure

\* {"success": False, "existing": path}
KeptExisting(path) ==
    [NoResult EXCEPT !.keys = {"success", "existing"}, !.existing = path]

\* A mutation of Downloaded: upgraded is reported for every replaced file.
DownloadedAlwaysUpgraded(path, language, provider, upgraded) ==
    [keys |-> {"success", "path", "language", "provider", "upgraded"},
     success |-> TRUE, existing |-> NoPath, path |-> path, language |-> language,
     provider |-> provider, upgraded |-> TRUE]

\* the success dict of _download_with_retry
Downloaded(path, language, provider, upgraded) ==
    [keys |-> {"success", "path", "language", "provider", "upgraded"},
     success |-> TRUE, existing |-> NoPath, path |-> path, language |-> language,
     provider |-> provider, upgraded |-> upgraded]

PipeIdle ==
    /\ ppc = "idle"
    /\ settings = [subtitles_languages |-> <<>>, languages_list |-> <<"en">>,
                   use_release_matching |-> TRUE,
                   upgrade_on_perfect_match |-> TRUE, upgrade_on_popular |-> TRUE,
                   popular_download_threshold |-> PopularThreshold]
    /\ fs = [p \in Paths |-> Absent]
    /\ fs0 = fs
    /\ existing = [l \in LangSet |-> NoPath]
    /\ li = 0
    /\ all_results = <<>>
    /\ ci = 0
    /\ dattempt = 0
    /\ result = NoResult
    /\ searches = <<>>
    /\ downloaded = {}
    /\ langStatus = <<>>

----------------------------------------------------------------------------
(* Exceptions: classes and `except <tuple>` matching *)

\* The exception classes the wrapped function raises in the model.
RaisedKinds == {"ValueError", "TypeError", "HTTPError"}

\* Python's class hierarchy for them: the classes an instance of `kind` is an
\* instance of (requests' HTTPError derives from RequestException).
Ancestors(kind) ==
    CASE kind = "ValueError"   -> {"ValueError", "Exception"}
      [] kind = "TypeError"    -> {"TypeError", "Exception"}
      [] kind = "HTTPError"    -> {"HTTPError", "RequestException", "Exception"}
      [] kind = "RuntimeError" -> {"RuntimeError", "Exception"}
      [] OTHER                 -> {kind, "Exception"}

\* The `exceptions` tuples the decorator is given: the default, the ones of
\* the tests, and the one of OpenSubtitlesProvider.download.
ExceptionTuples ==
    { {"Exception"}, {"ValueError"}, {"ValueError", "TypeError"},
      {"HTTPError", "RequestException"} }

\* The values the wrapped function returns.
ReturnValues == {"success", "result"}

\* A mutation of IsRetryable: the except clause catches everything.
IsRetryableCatchAll(kind, exceptions) == TRUE

\* `except exceptions as e`: the clause catches e iff e is an instance of one
\* of the classes in the tuple.
IsRetryable(kind, exceptions) == Ancestors(kind) \cap exceptions # {}

RECURSIVE Pow2(_)
Pow2(n) == IF n = 0 THEN 1 ELSE 2 * Pow2(n - 1)

\* A mutation of BackoffDelay: linear instead of exponential growth.
BackoffDelayLinear(base_delay, att) == base_delay * (att + 1)

\* delay = base_delay * (2**attempt)
BackoffDelay(base_delay, att) == base_delay * Pow2(att)

\* A mutation of HasAttemptsLeft: the last attempt retries as well.
HasAttemptsLeftOffByOne(att, max_retries) == att < max_retries

\* if attempt < max_retries - 1
HasAttemptsLeft(att, max_retries) == att < max_retries - 1

\* A mutation of LoopRuns: the loop body runs once even for max_retries = 0.
LoopRunsAtLeastOnce(att, max_retries) == att < max_retries \/ att = 0

\* for attempt in range(max_retries): whether the body runs for `att`
LoopRuns(att, max_retries) == att < max_retries

----------------------------------------------------------------------------
(* The log of the wrapper's effects *)

NoOutcome == [kind |-> "none", value |-> "none"]

\* raise RuntimeError("Retry loop exited unexpectedly")
RetryLoopExited == [kind |-> "raised", value |-> "RuntimeError: Retry loop exited unexpectedly"]

\* A mutation of Returned: the wrapper calls func and drops its result.
ReturnedNone(v) == [kind |-> "returned", value |-> "None"]

\* return func(*args, **kwargs)
Returned(v) == [kind |-> "returned", value |-> v]

\* an exception of class k leaves the wrapper (uncaught, or the bare `raise`)
Raised(k) == [kind |-> "raised", value |-> k]

CallEv(att, what)       == [ev |-> "call", attempt |-> att, delay |-> 0, what |-> what]
CallbackEv(att, d, err) == [ev |-> "on_retry", attempt |-> att, delay |-> d, what |-> err]
SleepEv(att, d, how)    == [ev |-> "sleep", attempt |-> att, delay |-> d, what |-> how]

EventsOf(log, ev) == SelectSeq(log, LAMBDA e : e.ev = ev)

\* the invocations of the wrapped function, the callbacks and the waits so far
Calls     == EventsOf(rlog, "call")
Callbacks == EventsOf(rlog, "on_retry")
Sleeps    == EventsOf(rlog, "sleep")

----------------------------------------------------------------------------
(* retry_with_backoff *)

RetryConfigs ==
    [max_retries : 0..RetryBound,
     base_delay  : 1..DelayBound,
     exceptions  : ExceptionTuples,
     on_retry    : BOOLEAN,
     is_async    : BOOLEAN]

RetryInit ==
    /\ rpc = "setup"
    /\ rcfg = [max_retries |-> 0, base_delay |-> 1, exceptions |-> {"Exception"},
               on_retry |-> FALSE, is_async |-> FALSE]
    /\ attempt = 0
    /\ rlog = <<>>
    /\ routcome = NoOutcome

\* calculate_match_score is not called
ScoreIdle ==
    /\ spc = "idle"
    /\ subtitle_release = <<>>
    /\ subtitle_filename = <<>>
    /\ media_release_groups = <<>>
    /\ combined = <<>>
    /\ group_i = 0
    /\ matches = 0
    /\ score_out = [score |-> [num |-> 0, den |-> 1], is_perfect |-> FALSE]

\* all_results.sort is not run on its own
RankIdle ==
    /\ rkpc = "idle"
    /\ rank_in = <<>>
    /\ rank_out = <<>>

\* handle_event's reply; the fields a reply does not carry are left empty
Reply(status, code, message) ==
    [status |-> status, code |-> code, message |-> message, event |-> "",
     subtitle |-> NoPath, language |-> "", provider |-> "", upgraded |-> FALSE]

NoReply == Reply("none", 0, "")

\* no webhook is being handled
HookIdle ==
    /\ hpc = "idle"
    /\ payload = [json |-> "object", event |-> "missing", metadata |-> "missing"]
    /\ auto_select = TRUE
    /\ plex_calls = <<>>
    /\ session_attempt = 0
    /\ session_waits = <<>>
    /\ response = NoReply

\* _download_and_verify is not run on its own
VerifyIdle ==
    /\ vpc = "idle"
    /\ vfile = Absent
    /\ vattempt = 0
    /\ vlog = <<>>
    /\ vreturn = "none"

Callers == 1..NumCallers

\* the value of a call of _authenticate: none yet, a raised
\* OpenSubtitlesError, or the token (0 for None)
NotReturned == -1
RaisedError == -2

\* no caller uses the provider
AuthIdle ==
    /\ apc = [c \in Callers |-> "idle"]
    /\ token = 0
    /\ token_expiry = 0
    /\ token_lock = 0
    /\ now = 0
    /\ logins = <<>>
    /\ auth_result = [c \in Callers |-> NotReturned]

\* OpenSubtitlesProvider.search is not run on its own
SearchIdle ==
    /\ sepc = "idle"
    /\ release_groups = <<>>
    /\ api_rows = <<>>
    /\ search_results = <<>>
    /\ has_perfect_match = FALSE

Webhooks == 1..NumWebhooks

\* A mutation of PoolThreads: the pool has a thread for every request.
PoolThreadsPerWebhook == 1..NumWebhooks

\* the threads self._executor may start
PoolThreads == 1..MAX_WORKERS

\* no webhook is in flight
PoolIdle ==
    /\ wpc = [w \in Webhooks |-> "replied"]
    /\ wcall = [w \in Webhooks |-> 0]
    /\ work_queue = <<>>
    /\ threads = [t \in PoolThreads |-> 0]
    /\ ran_on = {}

Invocations == 1..NumInvocations

\* output_path without a file (by = 0: written by no invocation)
NoFile == [by |-> 0, n |-> 0, lang_ok |-> FALSE]

\* no invocation of the pair is running
RaceIdle ==
    /\ inv_pc = [i \in Invocations |-> "idle"]
    /\ inv_attempt = [i \in Invocations |-> 0]
    /\ inv_matching = FALSE
    /\ disk = NoFile
    /\ last_written = NoFile

\* a guess without any field (a field that is missing, None or "" is <<>>)
NoGuess ==
    [raises |-> FALSE, release_group |-> <<>>, screen_size |-> <<>>,
     source |-> [is_list |-> FALSE, items |-> <<>>], video_codec |-> <<>>]

\* extract_release_info is not being called
ExtractIdle ==
    /\ xpc = "idle"
    /\ guess = NoGuess
    /\ release_info = <<>>

\* no call of _make_request is running
RequestIdle ==
    /\ qpc = [c \in Callers |-> "idle"]
    /\ retry_on_auth_error = [c \in Callers |-> TRUE]
    /\ answers = [c \in Callers |-> <<>>]
    /\ api_token = 0
    /\ login_count = 0

\* OpenSubtitlesProvider.download is not being called
ProviderDownloadIdle ==
    /\ dlpc = "idle"
    /\ dl_attempt = 0
    /\ dl_log = <<>>
    /\ dl_file = Absent
    /\ dl_return = "none"

\* the pipeline is not invoked a second time
AgainIdle ==
    /\ invocation = 0
    /\ first_result = NoResult

\* the components that are modelled on their own are not running
OthersIdle == VerifyIdle /\ AuthIdle /\ SearchIdle /\ PoolIdle /\ RaceIdle /\ ExtractIdle /\ RequestIdle /\ ProviderDownloadIdle /\ AgainIdle

RetryStart == RetryInit /\ PipeIdle /\ ScoreIdle /\ RankIdle /\ HookIdle /\ OthersIdle

\* retry_with_backoff(...)(func): the decorator is applied. Nothing is
\* validated; the wrapper for the kind of function (async or not) is returned.
Decorate ==
    /\ rpc = "setup"
    /\ \E c \in RetryConfigs : rcfg' = c
    /\ rpc' = "ready"
    /\ UNCHANGED <<attempt, rlog, routcome>>
    /\ UNCHANGED notRetryVars

\* The wrapper is called: the loop starts, or, for an empty range, falls
\* through to `raise RuntimeError("Retry loop exited unexpectedly")`.
CallWrapper ==
    /\ rpc = "ready"
    /\ attempt' = 0
    /\ IF LoopRuns(0, rcfg.max_retries)
       THEN /\ rpc' = "loop"
            /\ routcome' = routcome
       ELSE /\ rpc' = "done"
            /\ routcome' = RetryLoopExited
    /\ UNCHANGED <<rcfg, rlog>>
    /\ UNCHANGED notRetryVars

\* The state after the loop body for `attempt` ended without return or raise.
NextIteration ==
    /\ attempt' = attempt + 1
    /\ IF LoopRuns(attempt + 1, rcfg.max_retries)
       THEN /\ rpc' = "loop"
            /\ routcome' = routcome
       ELSE /\ rpc' = "done"
            /\ routcome' = RetryLoopExited

\* One iteration in which the wrapped function returns v.
AttemptReturns(how) ==
    \E v \in ReturnValues :
        /\ rlog' = Append(rlog, CallEv(attempt, v))
        /\ rpc' = "done"
        /\ routcome' = Returned(v)
        /\ UNCHANGED attempt

\* One iteration in which the wrapped function raises an exception of class k.
AttemptRaises(how) ==
    \E k \in RaisedKinds :
        IF ~IsRetryable(k, rcfg.exceptions)
        THEN \* not caught by `except exceptions`: propagates
             /\ rlog' = Append(rlog, CallEv(attempt, k))
             /\ rpc' = "done"
             /\ routcome' = Raised(k)
             /\ UNCHANGED attempt
        ELSE IF HasAttemptsLeft(attempt, rcfg.max_retries)
        THEN LET d == BackoffDelay(rcfg.base_delay, attempt)
                 cb == IF rcfg.on_retry THEN <<CallbackEv(attempt, d, k)>> ELSE <<>>
             IN  /\ rlog' = rlog \o <<CallEv(attempt, k)>> \o cb
                                 \o <<SleepEv(attempt, d, how)>>
                 /\ NextIteration
        ELSE \* the bare `raise` of the last attempt
             /\ rlog' = Append(rlog, CallEv(attempt, k))
             /\ rpc' = "done"
             /\ routcome' = Raised(k)
             /\ UNCHANGED attempt

\* sync_wrapper: one iteration of its loop
SyncAttempt ==
    /\ rpc = "loop"
    /\ ~rcfg.is_async
    /\ (AttemptReturns("time.sleep") \/ AttemptRaises("time.sleep"))
    /\ UNCHANGED rcfg
    /\ UNCHANGED notRetryVars

\* async_wrapper: one iteration of its loop
AsyncAttempt ==
    /\ rpc = "loop"
    /\ rcfg.is_async
    /\ (AttemptReturns("asyncio.sleep") \/ AttemptRaises("asyncio.sleep"))
    /\ UNCHANGED rcfg
    /\ UNCHANGED notRetryVars

NextRetry == Decorate \/ CallWrapper \/ SyncAttempt \/ AsyncAttempt

SpecRetry == RetryStart /\ [][NextRetry]_vars

----------------------------------------------------------------------------
(* SubtitleManager *)

\* the comma-separated entries SUBTITLES_LANGUAGES can hold: a valid code, a
\* valid code in upper case with a blank before it, and a code that is not
\* ISO 639-1
RawCodes == {"en", " NL", "xx"}

\* lang.strip().lower()
StripLower(code) == IF code = " NL" THEN "nl" ELSE code

\* VALID_ISO639_1_CODES, as far as the entries of RawCodes reach
VALID_ISO639_1_CODES == LangSet

\* the values of SUBTITLES_LANGUAGES, as their entries (value.split(",")):
\* <<>> is the unset or blank value, then the lists of valid codes, and the
\* lists of up to two entries with a code that is not valid
RawLanguages ==
    UNION {[1..n -> RawCodes \cap {"en", " NL"}] : n \in 0..MaxLangs}
        \cup UNION {[1..n -> RawCodes] : n \in 1..2}

RECURSIVE ValidatedCodes(_)
\* the loop of parse_language_codes: the entries that are valid once stripped
\* and lowered, in the configured order
ValidatedCodes(raw) ==
    IF raw = <<>>
    THEN <<>>
    ELSE LET lang == StripLower(Head(raw))
         IN  IF lang \in VALID_ISO639_1_CODES
             THEN <<lang>> \o ValidatedCodes(Tail(raw))
             ELSE ValidatedCodes(Tail(raw))

\* A mutation of ParseLanguageCodes: no fallback to English.
ParseLanguageCodesNoDefault(raw) == ValidatedCodes(raw)

\* parse_language_codes: ["en"] for an unset value and for a value without a
\* valid code
ParseLanguageCodes(raw) ==
    IF raw = <<>>
    THEN <<"en">>
    ELSE IF ValidatedCodes(raw) # <<>> THEN ValidatedCodes(raw) ELSE <<"en">>

\* Settings: languages_list is the property computed from subtitles_languages
SettingsSpace ==
    {[subtitles_languages |-> raw,
      languages_list |-> ParseLanguageCodes(raw),
      use_release_matching |-> m,
      upgrade_on_perfect_match |-> u,
      upgrade_on_popular |-> p,
      popular_download_threshold |-> PopularThreshold] :
        raw \in RawLanguages, m \in BOOLEAN, u \in BOOLEAN, p \in BOOLEAN}

\* the subtitle files beside the media file before the invocation: at most
\* one per language, with one of InitialExts
InitialFileSystems ==
    {f \in [Paths -> {Absent, Original}] :
        /\ \A p \in Paths : f[p] # Absent => p[2] \in InitialExts
        /\ \A p, q \in Paths : (f[p] # Absent /\ f[q] # Absent /\ p[1] = q[1]) => p = q}

\* A mutation of GetExistingSubtitles: only the output extension is probed.
GetExistingSrtOnly(f, languages) ==
    [l \in LangSet |->
        IF (\E k \in 1..Len(languages) : languages[k] = l)
           /\ f[SubtitlePath(l, ".srt")] # Absent
        THEN SubtitlePath(l, ".srt")
        ELSE NoPath]

\* _get_existing_subtitles: for each configured language the first extension
\* of SUBTITLE_EXTENSIONS with a file
GetExistingSubtitles(f, languages) ==
    [l \in LangSet |->
        LET found == {k \in 1..Len(SUBTITLE_EXTENSIONS) :
                          f[SubtitlePath(l, SUBTITLE_EXTENSIONS[k])] # Absent}
        IN  IF (\E k \in 1..Len(languages) : languages[k] = l) /\ found # {}
            THEN SubtitlePath(l, SUBTITLE_EXTENSIONS[
                     CHOOSE k \in found : \A j \in found : k <= j])
            ELSE NoPath]

\* _should_skip_first_language: the skip dict, or NoResult for None
ShouldSkipFirstLanguage(ex, first_lang) ==
    IF ex[first_lang] # NoPath /\ ~settings.use_release_matching
    THEN KeptExisting(ex[first_lang])
    ELSE NoResult

\* A mutation of ShouldSkipLanguageCheck: the upgrade switch is not consulted.
ShouldSkipLanguageCheckNoUpgradeTest(is_first, first_lang, ex, current_lang) ==
    IF is_first /\ ex[first_lang] # NoPath /\ ~settings.use_release_matching
    THEN KeptExisting(ex[first_lang])
    ELSE NoResult

\* _should_skip_language_check: the skip dict, or NoResult for None
ShouldSkipLanguageCheck(is_first, first_lang, ex, current_lang) ==
    IF is_first /\ ex[first_lang] # NoPath
    THEN IF ~settings.use_release_matching
         THEN KeptExisting(ex[first_lang])
         ELSE IF ~settings.upgrade_on_perfect_match
         THEN KeptExisting(ex[first_lang])
         ELSE NoResult
    ELSE NoResult

\* the ids of the candidates of one search, in discovery order
IdOf(k) == <<"s1", "s2", "s3", "s4">>[k]

\* what provider.search does: it raises, or returns SubtitleResults
SearchReturns ==
    {[raises |-> TRUE, kinds |-> <<>>]} \cup
    {[raises |-> FALSE, kinds |-> ks] :
        ks \in UNION {[1..n -> [is_perfect_match : BOOLEAN,
                                download_count : DownloadCounts]] : n \in ResultCounts}}

\* _try_download, the search loop: the results of every provider that did not
\* raise, in provider order (ids number the merged list)
RECURSIVE MergeKinds(_, _)
MergeKinds(returns, k) ==
    IF k > Len(Providers) THEN <<>>
    ELSE (IF returns[k].raises THEN <<>>
          ELSE [j \in 1..Len(returns[k].kinds) |->
                  [is_perfect_match |-> returns[k].kinds[j].is_perfect_match,
                   download_count |-> returns[k].kinds[j].download_count,
                   score |-> 0,
                   provider |-> Providers[k]]])
         \o MergeKinds(returns, k + 1)

AllResults(returns) ==
    LET merged == MergeKinds(returns, 1)
    IN  [j \in 1..Len(merged) |->
            [id |-> IdOf(j),
             is_perfect_match |-> merged[j].is_perfect_match,
             download_count |-> merged[j].download_count,
             score |-> merged[j].score,
             provider |-> merged[j].provider]]

\* A mutation of KeyBefore: the download count is compared before the
\* perfect-match flag.
KeyBeforeCountFirst(a, b) ==
    \/ a.download_count > b.download_count
    \/ /\ a.download_count = b.download_count
       /\ a.is_perfect_match /\ ~b.is_perfect_match
    \/ /\ a.download_count = b.download_count
       /\ a.is_perfect_match = b.is_perfect_match
       /\ a.score > b.score

\* the sort key (not is_perfect_match, -download_count, -score): a sorts
\* strictly before b
KeyBefore(a, b) ==
    \/ a.is_perfect_match /\ ~b.is_perfect_match
    \/ /\ a.is_perfect_match = b.is_perfect_match
       /\ a.download_count > b.download_count
    \/ /\ a.is_perfect_match = b.is_perfect_match
       /\ a.download_count = b.download_count
       /\ a.score > b.score

\* list.sort is stable: x, later in the list than all of `sorted`, goes after
\* every element whose key is not greater than its own
InsertStable(sorted, x) ==
    LET k == Cardinality({j \in 1..Len(sorted) : ~KeyBefore(x, sorted[j])})
    IN  SubSeq(sorted, 1, k) \o <<x>> \o SubSeq(sorted, k + 1, Len(sorted))

\* A mutation of SortResults: the list is left in discovery order.
SortResultsUnsorted(results) == results

RECURSIVE SortResults(_)
SortResults(results) ==
    IF results = <<>> THEN <<>>
    ELSE InsertStable(SortResults(SubSeq(results, 1, Len(results) - 1)),
                      results[Len(results)])

HasPerfectMatch(results) ==
    \E j \in 1..Len(results) : results[j].is_perfect_match

\* A mutation of GateKeepsExisting: nothing is gated.
GateKeepsExistingNever(existing_path, results) == FALSE

\* _try_download, the upgrade checks: whether it returns
\* {"success": False, "existing": existing_path} before any download
GateKeepsExisting(existing_path, results) ==
    \/ /\ existing_path # NoPath
       /\ ~HasPerfectMatch(results)
       /\ ~( /\ settings.upgrade_on_popular
             /\ results[1].download_count >= settings.popular_download_threshold )
    \/ /\ existing_path # NoPath
       /\ HasPerfectMatch(results)
       /\ ~settings.upgrade_on_perfect_match

\* A mutation of Eligible: in upgrade-on-popular mode no candidate is skipped.
EligibleAnyPopular(existing_path, results, j) ==
    ~( /\ existing_path # NoPath
       /\ ~results[j].is_perfect_match
       /\ ~settings.upgrade_on_popular )

\* _try_download, the download loop: whether the candidate is not skipped
Eligible(existing_path, results, j) ==
    ~( /\ existing_path # NoPath
       /\ ~results[j].is_perfect_match
       /\ (~settings.upgrade_on_popular \/ results[j] # results[1]) )

\* the next candidate after position j that the download loop does not skip
\* (0: none)
NextEligible(existing_path, results, j) ==
    LET rest == {k \in (j + 1)..Len(results) : Eligible(existing_path, results, k)}
    IN  IF rest = {} THEN 0 ELSE CHOOSE k \in rest : \A m \in rest : k <= m

CurrentLang == settings.languages_list[li]

\* os.path.join(media_dir, f"{media_name}.{language}.srt")
OutputPath(language) == SubtitlePath(language, ".srt")

PipeInit ==
    /\ ppc = "idle"
    /\ settings \in SettingsSpace
    /\ fs \in InitialFileSystems
    /\ fs0 = fs
    /\ existing = [l \in LangSet |-> NoPath]
    /\ li = 0
    /\ all_results = <<>>
    /\ ci = 0
    /\ dattempt = 0
    /\ result = NoResult
    /\ searches = <<>>
    /\ downloaded = {}
    /\ langStatus = <<>>

Init == RetryInit /\ PipeInit /\ ScoreIdle /\ RankIdle /\ HookIdle /\ OthersIdle

\* download_subtitles returns res
Return(res) ==
    /\ ppc' = "done"
    /\ result' = res

\* download_subtitles up to its language loop
Start ==
    /\ ppc = "idle"
    /\ LET languages == settings.languages_list
       IN  IF languages = <<>>
           THEN /\ Return(Failure)
                /\ UNCHANGED <<existing, li>>
           ELSE LET ex == GetExistingSubtitles(fs, languages)
                    skip_result == ShouldSkipFirstLanguage(ex, languages[1])
                IN  /\ existing' = ex
                    /\ IF skip_result # NoResult
                       THEN Return(skip_result) /\ UNCHANGED li
                       ELSE ppc' = "lang" /\ li' = 1 /\ UNCHANGED result
    /\ UNCHANGED <<settings, fs, fs0, all_results, ci, dattempt, searches, downloaded,
                   langStatus>>
    /\ UNCHANGED notPipeVars

\* A mutation of HasNextLanguage: the loop body returns after one language.
HasNextLanguageNever(i, languages) == FALSE

\* for i, lang in enumerate(languages): whether another iteration follows the
\* one of language index i
HasNextLanguage(i, languages) == i < Len(languages)

\* _try_download returned without success for the current language: the loop
\* of download_subtitles goes on, or ends with {"success": False}
FailLanguage(reason) ==
    /\ langStatus' = Append(langStatus, reason)
    /\ ci' = 0
    /\ dattempt' = 0
    /\ IF HasNextLanguage(li, settings.languages_list)
       THEN ppc' = "lang" /\ li' = li + 1 /\ UNCHANGED result
       ELSE Return(Failure) /\ UNCHANGED li

\* One iteration of the language loop up to the first download: the skip
\* check, then _try_download's search of every provider, sort and upgrade
\* checks.
TryLanguage ==
    /\ ppc = "lang"
    /\ LET lang == CurrentLang
           skip_check == ShouldSkipLanguageCheck(li = 1, settings.languages_list[1],
                                                 existing, lang)
       IN  IF skip_check # NoResult
           THEN /\ Return(skip_check)
                /\ UNCHANGED <<li, all_results, ci, dattempt, searches, langStatus>>
           ELSE \E returns \in [1..Len(Providers) -> SearchReturns] :
                    LET sorted == SortResults(AllResults(returns))
                        first  == NextEligible(existing[lang], sorted, 0)
                    IN  /\ searches' = searches \o [k \in 1..Len(Providers) |->
                                          <<Providers[k], li, returns[k].raises>>]
                        /\ all_results' = sorted
                        /\ IF sorted = <<>>
                           THEN FailLanguage("no_candidates")
                           ELSE IF GateKeepsExisting(existing[lang], sorted)
                           THEN FailLanguage("kept_existing")
                           ELSE IF first = 0
                           THEN FailLanguage("download_failed")
                           ELSE /\ ppc' = "download"
                                /\ ci' = first
                                /\ dattempt' = 0
                                /\ UNCHANGED <<li, result, langStatus>>
    /\ UNCHANGED <<settings, fs, fs0, existing, downloaded>>
    /\ UNCHANGED notPipeVars

\* A mutation of NextCandidate: a failed candidate ends the acquisition for
\* the language.
NextCandidateGivesUp == FailLanguage("download_failed") /\ UNCHANGED all_results

\* _download_with_retry returned {"success": False} for the current candidate:
\* the download loop goes to the next candidate it does not skip
NextCandidate ==
    LET next == NextEligible(existing[CurrentLang], all_results, ci)
    IN  IF next # 0
        THEN /\ ci' = next
             /\ dattempt' = 0
             /\ UNCHANGED <<ppc, li, all_results, result, langStatus>>
        ELSE FailLanguage("download_failed") /\ UNCHANGED all_results

\* _download_and_verify raised an exception of class kind: the wrapper of
\* retry_with_backoff(max_retries=3) runs it again, or re-raises into
\* _download_with_retry, which logs and returns {"success": False}
AfterException(kind) ==
    IF /\ IsRetryable(kind, DownloadRetry.exceptions)
       /\ HasAttemptsLeft(dattempt, DownloadRetry.max_retries)
    THEN /\ dattempt' = dattempt + 1
         /\ UNCHANGED <<ppc, li, all_results, ci, result, langStatus>>
    ELSE NextCandidate

Candidate == all_results[ci]

CallDownload == downloaded' = downloaded \cup {<<li, Candidate.id>>}

\* One run of _download_and_verify in which provider.download raises.
DownloadRaises ==
    /\ ppc = "download"
    /\ CallDownload
    /\ AfterException("ProviderError")
    /\ UNCHANGED <<settings, fs, fs0, existing, searches>>
    /\ UNCHANGED notPipeVars

\* One run of _download_and_verify in which provider.download returns False:
\* it returns False, which the wrapper returns without retrying.
DownloadReturnsFalse ==
    /\ ppc = "download"
    /\ CallDownload
    /\ NextCandidate
    /\ UNCHANGED <<settings, fs, fs0, existing, searches>>
    /\ UNCHANGED notPipeVars

\* One run of _download_and_verify in which the file is written and
\* verify_language rejects it: the file is removed and an Exception raised.
DownloadRejected ==
    /\ ppc = "download"
    /\ CallDownload
    /\ fs' = [fs EXCEPT ![OutputPath(CurrentLang)] = Absent]
    /\ AfterException("Exception")
    /\ UNCHANGED <<settings, fs0, existing, searches>>
    /\ UNCHANGED notPipeVars

\* A mutation of RemovesExisting: the old file is removed for any candidate.
RemovesExistingAnyCandidate(existing_path, output_path, subtitle) ==
    existing_path # NoPath /\ existing_path # output_path

\* _download_with_retry: whether os.remove(existing_path) is called after a
\* verified download
RemovesExisting(existing_path, output_path, subtitle) ==
    /\ existing_path # NoPath
    /\ existing_path # output_path
    /\ subtitle.is_perfect_match

\* A mutation of Upgraded: every replacement of an existing file counts.
UpgradedAnyCandidate(existing_path, subtitle) == existing_path # NoPath

\* "upgraded": existing_path is not None and subtitle.is_perfect_match
Upgraded(existing_path, subtitle) ==
    existing_path # NoPath /\ subtitle.is_perfect_match

\* One run of _download_and_verify in which the file is written and verified,
\* and the rest of _download_with_retry: the old file is removed when
\* upgrading to a perfect match (an error of os.remove is only logged).
DownloadVerified ==
    /\ ppc = "download"
    /\ CallDownload
    /\ LET lang == CurrentLang
           output_path == OutputPath(lang)
           existing_path == existing[lang]
           written == [fs EXCEPT ![output_path] = Candidate.id]
       IN  /\ IF RemovesExisting(existing_path, output_path, Candidate)
              THEN \/ fs' = [written EXCEPT ![existing_path] = Absent]
                   \/ fs' = written
              ELSE fs' = written
           /\ Return(Downloaded(output_path, lang, Candidate.provider,
                                Upgraded(existing_path, Candidate)))
    /\ langStatus' = Append(langStatus, "success")
    /\ UNCHANGED <<settings, fs0, existing, li, all_results, ci, dattempt, searches>>
    /\ UNCHANGED notPipeVars

Next ==
    \/ Start
    \/ TryLanguage
    \/ DownloadRaises
    \/ DownloadReturnsFalse
    \/ DownloadRejected
    \/ DownloadVerified

Spec == Init /\ [][Next]_vars

----------------------------------------------------------------------------
(* Release matching: calculate_match_score *)

\* the characters of the texts; a string is a sequence of them
Chars == {"a", "A", "b"}

\* the blank of f"{subtitle_release} {subtitle_filename}"
Blank == " "

\* str.upper, character by character
UpperChar(c) == IF c = "a" THEN "A" ELSE IF c = "b" THEN "B" ELSE c

Upper(str) == [i \in 1..Len(str) |-> UpperChar(str[i])]

\* the lengths of subtitle_release and of subtitle_filename
TextLens == 0..2

\* the lengths of one release token
GroupLens == 1..2

Texts == UNION {[1..n -> Chars] : n \in TextLens}

Groups == UNION {[1..n -> Chars] : n \in GroupLens}

GroupLists == UNION {[1..n -> Groups] : n \in 0..MaxGroups}

RECURSIVE Contains(_, _)
\* `sub in text` of two strings
Contains(text, sub) ==
    IF Len(sub) > Len(text) THEN FALSE
    ELSE IF SubSeq(text, 1, Len(sub)) = sub THEN TRUE
    ELSE Contains(Tail(text), sub)

\* the float k / n as a fraction
Fraction(k, n) == [num |-> k, den |-> n]

\* 0.0
Zero == Fraction(0, 1)

\* A mutation of IsPerfect: one matching token is enough.
IsPerfectAnyMatch(m, groups) == m > 0

\* is_perfect = matches == len(media_release_groups) and matches > 0
IsPerfect(m, groups) == m = Len(groups) /\ m > 0

ScoreInit ==
    /\ RetryInit
    /\ PipeIdle
    /\ RankIdle
    /\ HookIdle
    /\ OthersIdle
    /\ spc = "idle"
    /\ subtitle_release \in Texts
    /\ subtitle_filename \in Texts
    /\ media_release_groups \in GroupLists
    /\ combined = <<>>
    /\ group_i = 0
    /\ matches = 0
    /\ score_out = [score |-> Zero, is_perfect |-> FALSE]

\* calculate_match_score up to its loop: (0.0, False) for no release groups
ScoreCall ==
    /\ spc = "idle"
    /\ IF media_release_groups = <<>>
       THEN /\ spc' = "done"
            /\ score_out' = [score |-> Zero, is_perfect |-> FALSE]
            /\ UNCHANGED <<combined, group_i, matches>>
       ELSE /\ spc' = "loop"
            /\ combined' = Upper(subtitle_release \o <<Blank>> \o subtitle_filename)
            /\ matches' = 0
            /\ group_i' = 1
            /\ UNCHANGED score_out
    /\ UNCHANGED <<subtitle_release, subtitle_filename, media_release_groups>>
    /\ UNCHANGED notScoreVars

\* one iteration of `for group in media_release_groups`
ScoreGroup ==
    /\ spc = "loop"
    /\ group_i <= Len(media_release_groups)
    /\ matches' = IF Contains(combined, Upper(media_release_groups[group_i]))
                  THEN matches + 1
                  ELSE matches
    /\ group_i' = group_i + 1
    /\ UNCHANGED <<spc, subtitle_release, subtitle_filename, media_release_groups,
                   combined, score_out>>
    /\ UNCHANGED notScoreVars

\* after the loop: score, is_perfect and the return
ScoreReturn ==
    /\ spc = "loop"
    /\ group_i > Len(media_release_groups)
    /\ spc' = "done"
    /\ score_out' =
          [score |-> IF media_release_groups # <<>>
                     THEN Fraction(matches, Len(media_release_groups))
                     ELSE Zero,
           is_perfect |-> IsPerfect(matches, media_release_groups)]
    /\ UNCHANGED <<subtitle_release, subtitle_filename, media_release_groups,
                   combined, group_i, matches>>
    /\ UNCHANGED notScoreVars

NextScore == ScoreCall \/ ScoreGroup \/ ScoreReturn

SpecScore == ScoreInit /\ [][NextScore]_vars

----------------------------------------------------------------------------
(* Ranking: all_results.sort of _try_download *)

\* SubtitleResult.download_count and SubtitleResult.score of the lists sorted
\* on their own
RankCounts == {5, 50}
RankScores == {0, 1}

\* the merged lists of one language, in discovery order
RankInputs ==
    UNION {{[j \in 1..n |->
               [id |-> IdOf(j),
                is_perfect_match |-> ks[j].is_perfect_match,
                download_count |-> ks[j].download_count,
                score |-> ks[j].score,
                provider |-> Providers[1]]] :
             ks \in [1..n -> [is_perfect_match : BOOLEAN,
                              download_count : RankCounts,
                              score : RankScores]]} : n \in 0..MaxRank}

RankInit ==
    /\ RetryInit
    /\ PipeIdle
    /\ ScoreIdle
    /\ HookIdle
    /\ OthersIdle
    /\ rkpc = "idle"
    /\ rank_in \in RankInputs
    /\ rank_out = <<>>

\* all_results.sort(key=...), then has_perfect_match and best_result are read
RankResults ==
    /\ rkpc = "idle"
    /\ rkpc' = "done"
    /\ rank_out' = SortResults(rank_in)
    /\ UNCHANGED rank_in
    /\ UNCHANGED notRankVars

NextRank == RankResults

SpecRank == RankInit /\ [][NextRank]_vars

----------------------------------------------------------------------------
(* Webhook handler: WebhookHandler.handle_event *)

\* A mutation of PROCESSABLE_EVENTS: media.pause is processed as well.
ProcessableEventsWithPause == {"media.play", "media.resume", "media.pause"}

PROCESSABLE_EVENTS == {"media.play", "media.resume"}

MAX_SESSION_RETRIES == 3

BASE_RETRY_WAIT_SECONDS == 3

\* the decorator of _try_set_session_subtitle
SessionRetry ==
    [max_retries |-> MAX_SESSION_RETRIES, base_delay |-> BASE_RETRY_WAIT_SECONDS,
     exceptions |-> {"Exception"}]

\* payload.get("event"): a processable event, another event, or no event
Events == {"media.play", "media.resume", "media.pause", "missing"}

\* payload.get("Metadata", {}): no such key, null, an object without
\* ratingKey, one with an empty ratingKey, one with a ratingKey
MetadataKinds == {"missing", "null", "no_key", "empty_key", "key"}

\* payload_str: text that is not JSON, JSON that is not an object, or an object
Payloads ==
    {[json |-> j, event |-> "missing", metadata |-> "missing"] :
        j \in {"invalid", "not_object"}}
    \cup [json : {"object"}, event : Events, metadata : MetadataKinds]

\* the settings and files of the webhook model: "en" or "en,nl" configured,
\* both upgrades enabled, no subtitle file or an .ass file for "en"
HookSettings ==
    {st \in SettingsSpace :
        /\ st.subtitles_languages \in {<<"en">>, <<"en", " NL">>}
        /\ st.upgrade_on_perfect_match
        /\ st.upgrade_on_popular}

HookFileSystems ==
    {f \in InitialFileSystems :
        \A q \in Paths : f[q] # Absent => q = SubtitlePath("en", ".ass")}

HookInit ==
    /\ RetryInit
    /\ ScoreIdle
    /\ RankIdle
    /\ OthersIdle
    /\ ppc = "uncalled"
    /\ settings \in HookSettings
    /\ fs \in HookFileSystems
    /\ fs0 = fs
    /\ existing = [l \in LangSet |-> NoPath]
    /\ li = 0
    /\ all_results = <<>>
    /\ ci = 0
    /\ dattempt = 0
    /\ result = NoResult
    /\ searches = <<>>
    /\ downloaded = {}
    /\ langStatus = <<>>
    /\ hpc = "received"
    /\ payload \in Payloads
    /\ auto_select \in BOOLEAN
    /\ plex_calls = <<>>
    /\ session_attempt = 0
    /\ session_waits = <<>>
    /\ response = NoReply

\* handle_event returns (reply, code)
Respond(reply) ==
    /\ hpc' = "done"
    /\ response' = reply

\* handle_event ends with an exception it does not catch
Raise(kind) == Respond(Reply("raised", 0, kind))

PlexCall(call, returned) ==
    plex_calls' = Append(plex_calls, [call |-> call, returned |-> returned])

\* the reply after a successful acquisition
SuccessReply(res) ==
    [Reply("success", 200, "") EXCEPT
        !.subtitle = res.path, !.language = res.language,
        !.provider = res.provider, !.upgraded = res.upgraded]

NotFoundReply == Reply("not_found", 404, "No suitable subtitle found")

\* A mutation of HasRatingKey: only a missing ratingKey is refused.
HasRatingKeyNotNone(metadata) == metadata \in {"key", "empty_key"}

\* `if not rating_key` fails: metadata.get("ratingKey") is truthy
HasRatingKey(metadata) == metadata = "key"

\* A mutation of AcquisitionSucceeded: a kept existing file counts as success.
AcquisitionSucceededOrKept(res) == res.success \/ res.existing # NoPath

\* `if result["success"]`
AcquisitionSucceeded(res) == res.success

\* A mutation of DefaultReply: a failed default-stream call fails the webhook.
DefaultReplyFailsOnError(default_success, res) ==
    IF default_success = "True"
    THEN SuccessReply(res)
    ELSE Reply("error", 500, "Could not set subtitle stream")

\* the reply after set_subtitle_stream returned default_success, which is
\* logged and not otherwise used
DefaultReply(default_success, res) == SuccessReply(res)

\* handle_event up to get_media_info: json.loads, the event filter and the
\* rating key
HookReceive ==
    /\ hpc = "received"
    /\ IF payload.json = "invalid"
       THEN Respond(Reply("error", 400, "Invalid JSON"))
       ELSE IF payload.json = "not_object"
       THEN Raise("AttributeError")
       ELSE IF payload.event \notin PROCESSABLE_EVENTS
       THEN Respond([Reply("ignored", 200, "") EXCEPT !.event = payload.event])
       ELSE IF payload.metadata = "null"
       THEN Raise("AttributeError")
       ELSE IF ~HasRatingKey(payload.metadata)
       THEN Respond(Reply("error", 400, "No rating key"))
       ELSE hpc' = "media" /\ UNCHANGED response
    /\ UNCHANGED <<payload, auto_select, plex_calls, session_attempt, session_waits>>
    /\ UNCHANGED pipeVars
    /\ UNCHANGED notHookVars

\* self.plex.get_media_info and the checks of its result; then
\* download_subtitles is called
HookGetMediaInfo ==
    /\ hpc = "media"
    /\ \E got \in {"PlexAPIError", "None", "no_file_path", "info"} :
          /\ PlexCall("get_media_info", got)
          /\ IF got = "PlexAPIError"
             THEN Respond(Reply("error", 500, "PlexAPIError")) /\ UNCHANGED ppc
             ELSE IF got = "None"
             THEN Respond(Reply("error", 500, "Could not get media info"))
                  /\ UNCHANGED ppc
             ELSE IF got = "no_file_path"
             THEN Respond(Reply("error", 500, "Could not get file path"))
                  /\ UNCHANGED ppc
             ELSE /\ hpc' = "acquire"
                  /\ ppc' = "idle"
                  /\ UNCHANGED response
    /\ UNCHANGED <<payload, auto_select, session_attempt, session_waits>>
    /\ UNCHANGED <<settings, fs, fs0, existing, li, all_results, ci, dattempt, result,
                   searches, downloaded, langStatus>>
    /\ UNCHANGED notHookVars

\* download_subtitles has returned: refresh_metadata and the auto-select
\* branch after a success, the not_found reply otherwise
HookAcquired ==
    /\ hpc = "acquire"
    /\ ppc = "done"
    /\ IF AcquisitionSucceeded(result)
       THEN /\ \E refreshed \in {"True", "False"} :
                  PlexCall("refresh_metadata", refreshed)
            /\ IF auto_select
               THEN hpc' = "session" /\ UNCHANGED response
               ELSE Respond(SuccessReply(result))
       ELSE /\ Respond(NotFoundReply)
            /\ UNCHANGED plex_calls
    /\ session_attempt' = 0
    /\ UNCHANGED <<payload, auto_select, session_waits>>
    /\ UNCHANGED pipeVars
    /\ UNCHANGED notHookVars

\* one run of _try_set_session_subtitle under its retry wrapper, and what
\* follows in _try_set_session_subtitle_with_retry and handle_event
HookSessionAttempt ==
    /\ hpc = "session"
    /\ \E got \in {"True", "False", "ValueError"} :
          /\ PlexCall("set_active_session_subtitle", got)
          /\ IF got = "True"
             THEN /\ Respond(SuccessReply(result))
                  /\ UNCHANGED <<session_attempt, session_waits>>
             ELSE LET kind == IF got = "False" THEN "Exception" ELSE got
                  IN  IF /\ IsRetryable(kind, SessionRetry.exceptions)
                         /\ HasAttemptsLeft(session_attempt, SessionRetry.max_retries)
                      THEN /\ session_waits' =
                                 Append(session_waits,
                                        BackoffDelay(SessionRetry.base_delay,
                                                     session_attempt))
                           /\ session_attempt' = session_attempt + 1
                           /\ UNCHANGED <<hpc, response>>
                      ELSE /\ hpc' = "default"
                           /\ UNCHANGED <<response, session_attempt, session_waits>>
    /\ UNCHANGED <<payload, auto_select>>
    /\ UNCHANGED pipeVars
    /\ UNCHANGED notHookVars

\* self.plex.set_subtitle_stream, once; its result is only logged
HookSetDefault ==
    /\ hpc = "default"
    /\ \E default_success \in {"True", "False"} :
          /\ PlexCall("set_subtitle_stream", default_success)
          /\ Respond(DefaultReply(default_success, result))
    /\ UNCHANGED <<payload, auto_select, session_attempt, session_waits>>
    /\ UNCHANGED pipeVars
    /\ UNCHANGED notHookVars

NextWebhook ==
    \/ HookReceive
    \/ HookGetMediaInfo
    \/ Start
    \/ TryLanguage
    \/ DownloadRaises
    \/ DownloadReturnsFalse
    \/ DownloadRejected
    \/ DownloadVerified
    \/ HookAcquired
    \/ HookSessionAttempt
    \/ HookSetDefault

SpecWebhook == HookInit /\ [][NextWebhook]_vars

\* every call of a collaborator returns or fails: a step that is possible is
\* eventually taken
SpecWebhookLive == SpecWebhook /\ WF_vars(NextWebhook)

----------------------------------------------------------------------------
(* _download_and_verify under retry_with_backoff(max_retries=3), on its own *)

\* the content of output_path after provider.download wrote the candidate
Written == "written"

\* the exceptions provider.download raises in the model
DownloadErrors == {"ProviderError", "OSError"}

\* A mutation of RemoveFile: the rejected file is left in place.
RemoveFileNot(content) == content

\* os.remove(output_path)
RemoveFile(content) == Absent

VerifyInit ==
    /\ RetryInit
    /\ PipeIdle
    /\ ScoreIdle
    /\ RankIdle
    /\ HookIdle
    /\ AgainIdle
    /\ ProviderDownloadIdle
    /\ RequestIdle
    /\ ExtractIdle
    /\ RaceIdle
    /\ PoolIdle
    /\ AuthIdle
    /\ SearchIdle
    /\ vpc = "run"
    /\ vfile \in {Absent, Original}
    /\ vattempt = 0
    /\ vlog = <<>>
    /\ vreturn = "none"

\* the wrapper after an execution raised an exception of class kind: it runs
\* the function again or re-raises
VerifyAfterException(kind) ==
    IF /\ IsRetryable(kind, DownloadRetry.exceptions)
       /\ HasAttemptsLeft(vattempt, DownloadRetry.max_retries)
    THEN /\ vattempt' = vattempt + 1
         /\ UNCHANGED <<vpc, vreturn>>
    ELSE /\ vpc' = "returned"
         /\ vreturn' = "raised"
         /\ UNCHANGED vattempt

\* the wrapper returns what the function returned
VerifyReturn(value) ==
    /\ vpc' = "returned"
    /\ vreturn' = value
    /\ UNCHANGED vattempt

\* one execution: how provider.download ended, what verify_language said,
\* whether os.remove was called, and what it left at output_path
Executed(download, verified, removed, content) ==
    vlog' = Append(vlog, [download |-> download, verified |-> verified,
                          removed |-> removed, file |-> content])

\* provider.download raises
VerifyDownloadRaises ==
    /\ vpc = "run"
    /\ \E kind \in DownloadErrors :
          /\ Executed(kind, "uncalled", FALSE, vfile)
          /\ VerifyAfterException(kind)
    /\ UNCHANGED vfile
    /\ UNCHANGED notVerifyVars

\* provider.download returns False: `if not success: return False`
VerifyDownloadReturnsFalse ==
    /\ vpc = "run"
    /\ Executed("False", "uncalled", FALSE, vfile)
    /\ VerifyReturn("False")
    /\ UNCHANGED vfile
    /\ UNCHANGED notVerifyVars

\* provider.download wrote the file and verify_language returned False:
\* os.remove(output_path), raise Exception("Language verification failed")
VerifyRejected ==
    /\ vpc = "run"
    /\ vfile' = RemoveFile(Written)
    /\ Executed("True", "False", TRUE, vfile')
    /\ VerifyAfterException("Exception")
    /\ UNCHANGED notVerifyVars

\* provider.download wrote the file and verify_language returned True
VerifyAccepted ==
    /\ vpc = "run"
    /\ vfile' = Written
    /\ Executed("True", "True", FALSE, vfile')
    /\ VerifyReturn("True")
    /\ UNCHANGED notVerifyVars

NextVerify ==
    \/ VerifyDownloadRaises
    \/ VerifyDownloadReturnsFalse
    \/ VerifyRejected
    \/ VerifyAccepted

SpecVerify == VerifyInit /\ [][NextVerify]_vars

----------------------------------------------------------------------------
(* OpenSubtitlesProvider.search: the SubtitleResults it builds, and their
   ranking in _try_download *)

\* file_name of the first file of a row
RowFileNames == {t \in Texts : Len(t) <= 1}

\* one element of data["data"]: whether attributes.language is one of the
\* allowed codes, whether attributes.files is non-empty, the release label, the
\* name of the first file, the download count
ApiRows ==
    [language_allowed : BOOLEAN, has_files : BOOLEAN, release : Texts,
     file_name : RowFileNames, download_count : {5}]

SearchInit ==
    /\ RetryInit
    /\ PipeIdle
    /\ ScoreIdle
    /\ RankIdle
    /\ HookIdle
    /\ AgainIdle
    /\ ProviderDownloadIdle
    /\ RequestIdle
    /\ ExtractIdle
    /\ RaceIdle
    /\ PoolIdle
    /\ VerifyIdle
    /\ AuthIdle
    /\ sepc = "call"
    /\ release_groups \in GroupLists
    /\ api_rows \in [1..1 -> ApiRows]
    /\ search_results = <<>>
    /\ has_perfect_match = FALSE

\* SubtitleResult(id=..., language=..., release=..., filename=...,
\* download_params=..., provider=self.name, download_count=...): the fields
\* search does not pass keep the defaults of the dataclass
NewSubtitleResult(k, row) ==
    [id |-> IdOf(k), release |-> row.release, filename |-> row.file_name,
     is_perfect_match |-> FALSE, score |-> 0,
     download_count |-> row.download_count, provider |-> Providers[1]]

\* search: the rows in an allowed language that have a file become results
ProviderSearch ==
    /\ sepc = "call"
    /\ LET kept == SelectSeq([k \in 1..Len(api_rows) |-> [k |-> k, row |-> api_rows[k]]],
                             LAMBDA e : e.row.language_allowed /\ e.row.has_files)
       IN  search_results' = [j \in 1..Len(kept) |-> NewSubtitleResult(kept[j].k, kept[j].row)]
    /\ sepc' = "returned"
    /\ UNCHANGED <<release_groups, api_rows, has_perfect_match>>
    /\ UNCHANGED notSearchVars

\* _try_download: all_results.sort(...) and has_perfect_match
RankSearched ==
    /\ sepc = "returned"
    /\ search_results' = SortResults(search_results)
    /\ has_perfect_match' = HasPerfectMatch(search_results')
    /\ sepc' = "ranked"
    /\ UNCHANGED <<release_groups, api_rows>>
    /\ UNCHANGED notSearchVars

NextSearch == ProviderSearch \/ RankSearched

SpecSearch == SearchInit /\ [][NextSearch]_vars

----------------------------------------------------------------------------
(* OpenSubtitlesProvider._authenticate, called concurrently: search,
   _make_request and _download_with_retry call it from the threads of the
   webhook handler's executor. Each action is one read or write of the shared
   attributes, or one blocking operation. *)

AuthInit ==
    /\ RetryInit
    /\ PipeIdle
    /\ ScoreIdle
    /\ RankIdle
    /\ HookIdle
    /\ AgainIdle
    /\ ProviderDownloadIdle
    /\ RequestIdle
    /\ ExtractIdle
    /\ RaceIdle
    /\ PoolIdle
    /\ VerifyIdle
    /\ SearchIdle
    /\ AuthIdle

\* A mutation of TokenValid: the cached token is never taken as valid.
TokenValidNever(tok, expiry, t) == FALSE

\* self.token and time.time() < self._token_expiry
TokenValid(tok, expiry, t) == tok # 0 /\ t < expiry

At(c, pos) == apc' = [apc EXCEPT ![c] = pos]

Returns(c, value) == auth_result' = [auth_result EXCEPT ![c] = value]

\* time passes
Tick ==
    /\ now < MaxTime
    /\ now' = now + 1
    /\ UNCHANGED <<apc, token, token_expiry, token_lock, logins, auth_result>>
    /\ UNCHANGED notAuthVars

\* a thread calls _authenticate
AuthCall(c) ==
    /\ apc[c] = "idle"
    /\ Len(logins) < MaxLogins
    /\ At(c, "fast")
    /\ Returns(c, NotReturned)
    /\ UNCHANGED <<token, token_expiry, token_lock, now, logins>>
    /\ UNCHANGED notAuthVars

\* the fast path: `if self.token and time.time() < self._token_expiry`,
\* without the lock
AuthFastCheck(c) ==
    /\ apc[c] = "fast"
    /\ IF TokenValid(token, token_expiry, now)
       THEN At(c, "fast_return")
       ELSE At(c, "acquire")
    /\ UNCHANGED <<token, token_expiry, token_lock, now, logins, auth_result>>
    /\ UNCHANGED notAuthVars

\* `return self.token` of the fast path
AuthFastReturn(c) ==
    /\ apc[c] = "fast_return"
    /\ Returns(c, token)
    /\ At(c, "idle")
    /\ UNCHANGED <<token, token_expiry, token_lock, now, logins>>
    /\ UNCHANGED notAuthVars

\* `with self._token_lock:` blocks until the lock is free
AuthAcquire(c) ==
    /\ apc[c] = "acquire"
    /\ token_lock = 0
    /\ token_lock' = c
    /\ At(c, "recheck")
    /\ UNCHANGED <<token, token_expiry, now, logins, auth_result>>
    /\ UNCHANGED notAuthVars

\* the check again, holding the lock: return self.token (the lock is
\* released), or go on to log in
AuthRecheck(c) ==
    /\ apc[c] = "recheck"
    /\ IF TokenValid(token, token_expiry, now)
       THEN /\ Returns(c, token)
            /\ token_lock' = 0
            /\ At(c, "idle")
       ELSE /\ At(c, "login")
            /\ UNCHANGED <<token_lock, auth_result>>
    /\ UNCHANGED <<token, token_expiry, now, logins>>
    /\ UNCHANGED notAuthVars

\* requests.post(url, ...): the login request, which succeeds or raises a
\* RequestException, turned into OpenSubtitlesError (the lock is released)
AuthLogin(c) ==
    /\ apc[c] = "login"
    /\ \E ok \in BOOLEAN :
          /\ logins' = Append(logins, [by |-> c, at |-> now, ok |-> ok])
          /\ IF ok
             THEN /\ At(c, "set_token")
                  /\ UNCHANGED <<token_lock, auth_result>>
             ELSE /\ Returns(c, RaisedError)
                  /\ token_lock' = 0
                  /\ At(c, "idle")
    /\ UNCHANGED <<token, token_expiry, now>>
    /\ UNCHANGED notAuthVars

\* the tokens issued so far
Issued == Cardinality({k \in 1..Len(logins) : logins[k].ok})

\* self.token = data.get("token")
AuthSetToken(c) ==
    /\ apc[c] = "set_token"
    /\ token' = Issued
    /\ At(c, "set_expiry")
    /\ UNCHANGED <<token_expiry, token_lock, now, logins, auth_result>>
    /\ UNCHANGED notAuthVars

\* self._token_expiry = time.time() + TOKEN_EXPIRY_SECONDS
AuthSetExpiry(c) ==
    /\ apc[c] = "set_expiry"
    /\ token_expiry' = now + TokenLifetime
    /\ At(c, "return")
    /\ UNCHANGED <<token, token_lock, now, logins, auth_result>>
    /\ UNCHANGED notAuthVars

\* `return self.token` after the login; the lock is released
AuthReturn(c) ==
    /\ apc[c] = "return"
    /\ Returns(c, token)
    /\ token_lock' = 0
    /\ At(c, "idle")
    /\ UNCHANGED <<token, token_expiry, now, logins>>
    /\ UNCHANGED notAuthVars

\* what the request of _make_request ends with when it fails: the base
\* client's _make_request turns every RequestException, an HTTP 401 included,
\* into PlexAPIError; response.json() raises a JSONDecodeError
RequestErrors == {"PlexAPIError", "JSONDecodeError"}

\* hasattr(e, "response") and e.response is not None: true of the HTTPError
\* that raise_for_status raises, which does not reach this handler
CarriesResponse(kind) == kind = "HTTPError"

\* _make_request after _authenticate returned a token: the request fails.
\* For an error that carries a 401 response it clears the token and
\* authenticates again; any other error is raised as OpenSubtitlesError.
AuthRequestFails(c) ==
    /\ apc[c] = "idle"
    /\ auth_result[c] > 0
    /\ \E kind \in RequestErrors :
          IF CarriesResponse(kind)
          THEN /\ token' = 0
               /\ At(c, "fast")
               /\ Returns(c, NotReturned)
          ELSE /\ Returns(c, RaisedError)
               /\ UNCHANGED <<apc, token>>
    /\ UNCHANGED <<token_expiry, token_lock, now, logins>>
    /\ UNCHANGED notAuthVars

NextAuth ==
    \/ Tick
    \/ \E c \in Callers :
          \/ AuthCall(c)
          \/ AuthFastCheck(c)
          \/ AuthFastReturn(c)
          \/ AuthAcquire(c)
          \/ AuthRecheck(c)
          \/ AuthLogin(c)
          \/ AuthSetToken(c)
          \/ AuthSetExpiry(c)
          \/ AuthReturn(c)
          \/ AuthRequestFails(c)

SpecAuth == AuthInit /\ [][NextAuth]_vars

----------------------------------------------------------------------------
(* Properties of the retry decorator (checked under SpecRetry) *)

\* the exception class k is one the configured `exceptions` tuple names
Caught(k) == Ancestors(k) \cap rcfg.exceptions # {}

IsFailure(e)          == e.what \in RaisedKinds
IsRetryableFailure(e) == IsFailure(e) /\ Caught(e.what)

AllCallsFailRetryably ==
    \A i \in 1..Len(Calls) : IsRetryableFailure(Calls[i])

\* C1: for max_retries >= 1, a function that fails with a retryable error on
\* every attempt is invoked exactly max_retries times and the error of the
\* last attempt propagates; the last attempt invokes no callback and does not
\* wait (the last thing the wrapper did is that call).
C1_ExhaustedRetriesPropagate ==
    (rpc = "done" /\ rcfg.max_retries >= 1 /\ AllCallsFailRetryably) =>
        /\ Len(Calls) = rcfg.max_retries
        /\ routcome = [kind |-> "raised", value |-> Calls[Len(Calls)].what]
        /\ rlog[Len(rlog)].ev = "call"
        /\ \A i \in 1..Len(rlog) :
              rlog[i].ev \in {"on_retry", "sleep"} =>
                  rlog[i].attempt < rcfg.max_retries - 1

C1_Witness ==
    /\ rpc = "done" /\ rcfg.max_retries = 3 /\ AllCallsFailRetryably
    /\ Len(Calls) = 3 /\ rcfg.on_retry
    /\ routcome.kind = "raised"

\* C2: f retryable failures followed by a success, f < max_retries, make
\* exactly f+1 invocations and the wrapper returns the function's value
\* unchanged; with f = 0 there is one invocation, no callback and no wait.
C2_SuccessAfterFailures ==
    /\ rpc = "loop" =>
          Len(Calls) = attempt /\ attempt < rcfg.max_retries /\ AllCallsFailRetryably
    /\ \A i \in 1..Len(Calls) :
          Calls[i].what \in ReturnValues =>
              /\ i = Len(Calls)
              /\ i = attempt + 1
              /\ i <= rcfg.max_retries
              /\ \A j \in 1..(i - 1) : IsRetryableFailure(Calls[j])
              /\ rpc = "done"
              /\ routcome = [kind |-> "returned", value |-> Calls[i].what]
              /\ Len(Sleeps) = i - 1
              /\ Len(Callbacks) = IF rcfg.on_retry THEN i - 1 ELSE 0
              /\ rlog[Len(rlog)] = Calls[i]

C2_Witness ==
    /\ rpc = "done" /\ routcome.kind = "returned"
    /\ Len(Calls) = 3 /\ rcfg.max_retries = 3
    /\ rcfg.exceptions = {"ValueError", "TypeError"}
    /\ Calls[1].what = "ValueError" /\ Calls[2].what = "TypeError"

\* C3: an exception that is not an instance of a class of the `exceptions`
\* tuple propagates at once: its call is the last thing the wrapper does (no
\* callback, no wait, no further call), and when it is the first call the
\* function has been invoked exactly once, whatever max_retries is.
C3_NonRetryablePropagates ==
    \A i \in 1..Len(rlog) :
        (rlog[i].ev = "call" /\ IsFailure(rlog[i]) /\ ~Caught(rlog[i].what)) =>
            /\ i = Len(rlog)
            /\ rpc = "done"
            /\ routcome = [kind |-> "raised", value |-> rlog[i].what]
            /\ (i = 1 => Len(Calls) = 1 /\ Callbacks = <<>> /\ Sleeps = <<>>)

C3_Witness ==
    /\ rpc = "done" /\ rcfg.max_retries = 3 /\ rcfg.exceptions = {"ValueError"}
    /\ Len(rlog) = 1 /\ rlog[1].what = "TypeError"
    /\ routcome = [kind |-> "raised", value |-> "TypeError"]

\* C4: the k-th retry (k from 0) calls on_retry (when given) with attempt k
\* and delay base_delay * 2^k and then waits that delay; a function failing
\* max_retries = m times gives m-1 callbacks; max_retries = 3, base_delay = 1,
\* two failures then success give callbacks with delays 1 and 2 and a result.
C4_BackoffSchedule ==
    /\ \A k \in 1..Len(Sleeps) :
          /\ Sleeps[k].attempt = k - 1
          /\ Sleeps[k].delay = rcfg.base_delay * 2^(k - 1)
    /\ Len(Callbacks) = IF rcfg.on_retry THEN Len(Sleeps) ELSE 0
    /\ \A k \in 1..Len(Callbacks) :
          /\ Callbacks[k].attempt = k - 1
          /\ Callbacks[k].delay = rcfg.base_delay * 2^(k - 1)
          /\ Callbacks[k].what = Calls[k].what
    /\ \A i \in 1..Len(rlog) :
          rlog[i].ev = "on_retry" =>
              /\ i < Len(rlog)
              /\ rlog[i + 1].ev = "sleep"
              /\ rlog[i + 1].delay = rlog[i].delay
              /\ rlog[i - 1].ev = "call"
    /\ (rpc = "done" /\ rcfg.max_retries >= 1 /\ AllCallsFailRetryably) =>
          Len(Sleeps) = rcfg.max_retries - 1
    /\ ( /\ rpc = "done" /\ rcfg.max_retries = 3 /\ rcfg.base_delay = 1
         /\ rcfg.on_retry /\ Len(Calls) = 3 /\ Calls[3].what \in ReturnValues ) =>
          /\ Len(Callbacks) = 2
          /\ Callbacks[1].delay = 1 /\ Callbacks[2].delay = 2
          /\ routcome.kind = "returned"

C4_Witness ==
    /\ rpc = "done" /\ rcfg.max_retries = 4 /\ rcfg.base_delay = 1 /\ rcfg.on_retry
    /\ Len(Callbacks) = 3 /\ Callbacks[3].delay = 4
    /\ routcome.kind = "raised"

\* C5: a configuration with max_retries = 0 is rejected when the wrapper is
\* created: no wrapper exists (ready to be called, running or finished) for
\* such a configuration.
C5_ZeroRetriesRejectedAtSetup ==
    rpc \in {"ready", "loop", "done"} => rcfg.max_retries >= 1

\* C6: with max_retries = 0 the decorated function is created, and calling it
\* never invokes the wrapped function and raises
\* RuntimeError("Retry loop exited unexpectedly").
C6_ZeroRetriesNeverInvokes ==
    (rpc # "setup" /\ rcfg.max_retries = 0) =>
        /\ rlog = <<>>
        /\ rpc \in {"ready", "done"}
        /\ rpc = "done" =>
              routcome = [kind |-> "raised",
                          value |-> "RuntimeError: Retry loop exited unexpectedly"]

C6_Witness ==
    /\ rpc = "done" /\ rcfg.max_retries = 0
    /\ routcome.kind = "raised" /\ Len(Calls) = 0

----------------------------------------------------------------------------
(* Properties of download_subtitles (checked under Spec) *)

Languages == settings.languages_list

\* the subtitle files of language l present when download_subtitles was called
FilesBefore(l) == {p \in Paths : p[1] = l /\ fs0[p] # Absent}

PrimaryHadSubtitle == Languages # <<>> /\ FilesBefore(Languages[1]) # {}

\* the language indices of the provider.search calls, in call order
SearchedLangs == [k \in 1..Len(searches) |-> searches[k][2]]

NoProviderCalls == searches = <<>> /\ downloaded = {}

ReturnedKeptPrimary ==
    /\ result.keys = {"success", "existing"}
    /\ result.success = FALSE
    /\ result.existing \in FilesBefore(Languages[1])

\* C7: if the first configured language already has a subtitle file and
\* release matching is disabled, download_subtitles returns
\* {success: false, existing: <that file>} and no provider is searched or
\* asked to download, whatever the secondary languages are.
C7_KeepExistingWithoutMatching ==
    (PrimaryHadSubtitle /\ ~settings.use_release_matching) =>
        /\ NoProviderCalls
        /\ ppc = "done" => ReturnedKeptPrimary

C7_Witness ==
    /\ ppc = "done" /\ ~settings.use_release_matching
    /\ Len(Languages) = 2 /\ Languages[1] # Languages[2]
    /\ fs0[SubtitlePath(Languages[1], ".ass")] # Absent
    /\ result = KeptExisting(SubtitlePath(Languages[1], ".ass"))
    /\ NoProviderCalls

\* C8: if the first language has a subtitle file, release matching is enabled
\* and upgrade-on-perfect-match is disabled, the language loop stops at the
\* first language: no provider is searched for it or for a later language, and
\* the result is the kept existing path.
C8_KeepExistingWithoutUpgrade ==
    ( /\ PrimaryHadSubtitle
      /\ settings.use_release_matching
      /\ ~settings.upgrade_on_perfect_match ) =>
        /\ NoProviderCalls
        /\ li <= 1
        /\ ppc = "done" => ReturnedKeptPrimary

C8_Witness ==
    /\ ppc = "done" /\ settings.use_release_matching
    /\ ~settings.upgrade_on_perfect_match
    /\ Len(Languages) = 2 /\ Languages[1] # Languages[2]
    /\ PrimaryHadSubtitle
    /\ result.keys = {"success", "existing"}
    /\ NoProviderCalls

\* C9: when the first language's existing subtitle is kept by an upgrade gate
\* no later language is searched, and a language after the first is searched
\* only after the search for the language before it found no candidate.
C9_CascadeOnlyOnZeroCandidates ==
    /\ (Len(langStatus) >= 1 /\ langStatus[1] = "kept_existing") =>
          \A k \in 1..Len(searches) : SearchedLangs[k] = 1
    /\ \A k \in 1..Len(searches) :
          SearchedLangs[k] > 1 => langStatus[SearchedLangs[k] - 1] = "no_candidates"

FailedStatuses == {"no_candidates", "kept_existing", "download_failed"}

\* C10: languages are tried in configured order; language i+1 is searched
\* only after the acquisition for language i failed; the first success ends
\* the invocation with that success (nothing later is searched or downloaded);
\* {"success": False} is returned only after every configured language failed.
C10_LanguagesInOrder ==
    /\ \A k \in 1..Len(searches) :
          /\ SearchedLangs[k] = ((k - 1) \div Len(Providers)) + 1
          /\ \A j \in 1..(SearchedLangs[k] - 1) : langStatus[j] \in FailedStatuses
    /\ \A d \in downloaded : \E k \in 1..Len(searches) : SearchedLangs[k] = d[1]
    /\ \A j \in 1..Len(langStatus) :
          langStatus[j] = "success" =>
              /\ j = Len(langStatus)
              /\ ppc = "done"
              /\ result.success
              /\ result.language = Languages[j]
              /\ \A k \in 1..Len(searches) : SearchedLangs[k] <= j
              /\ \A d \in downloaded : d[1] <= j
    /\ (ppc = "done" /\ result.success) =>
          Len(langStatus) >= 1 /\ langStatus[Len(langStatus)] = "success"
    /\ (ppc = "done" /\ result = Failure) =>
          /\ Len(langStatus) = Len(Languages)
          /\ \A j \in 1..Len(Languages) : langStatus[j] \in FailedStatuses

C10_Witness ==
    /\ ppc = "done" /\ result.success
    /\ Len(Languages) = 2 /\ Languages[1] # Languages[2]
    /\ result.language = Languages[2]
    /\ langStatus = <<"download_failed", "success">>
    /\ SearchedLangs = <<1, 2>>

\* the value of SUBTITLES_LANGUAGES holds no valid language code
NoLanguageConfigured == ValidatedCodes(settings.subtitles_languages) = <<>>

SearchRaised(k) == searches[k][3]

\* the acquisition for language index i ended without success
LanguageFailedStep(i) ==
    IF i < Len(Languages)
    THEN ppc' = "lang" /\ li' = i + 1
    ELSE ppc' = "done" /\ result' = Failure

\* a step that ran provider.search for the current language, and it raised
SearchRaisesStep ==
    /\ ppc = "lang"
    /\ Len(searches') > Len(searches)
    /\ searches'[Len(searches')][3]

\* a step that ran _download_and_verify for the current candidate without
\* success
DownloadFailsStep ==
    /\ ppc = "download"
    /\ ~(ppc' = "done" /\ result'.success)

\* C12: a provider failure never aborts the pipeline. A search that raises
\* leaves the language without candidates of that provider and the language
\* loop goes on; a download that raises, returns false or is rejected is run
\* again or fails that candidate only, the next eligible candidate (or else
\* the next language) follows; download_subtitles always returns a dict.
C12_ProviderFailuresNotFatal ==
    /\ [][ /\ SearchRaisesStep =>
                /\ langStatus' = Append(langStatus, "no_candidates")
                /\ LanguageFailedStep(li)
           /\ DownloadFailsStep =>
                LET next == NextEligible(existing[CurrentLang], all_results, ci)
                IN  \/ ppc' = "download" /\ ci' = ci /\ dattempt' = dattempt + 1
                    \/ next # 0 /\ ppc' = "download" /\ ci' = next /\ li' = li
                    \/ next = 0 /\ LanguageFailedStep(li) ]_vars
    /\ [](ppc = "done" => /\ result # NoResult
                          /\ "success" \in result.keys)

C12_Witness ==
    /\ ppc = "done" /\ result.success
    /\ Len(searches) = 2 /\ SearchRaised(1) /\ ~SearchRaised(2)
    /\ result.language = Languages[2]
    /\ langStatus = <<"no_candidates", "success">>
    /\ Cardinality(downloaded) = 2

\* the language index of the latest _try_download
LastSearched == SearchedLangs[Len(searches)]

\* the provider.download calls made for language index j
DownloadsOf(j) == {d \in downloaded : d[1] = j}

\* the two cases of C13 in which an existing subtitle may be replaced
UpgradeAllowed(results) ==
    /\ results # <<>>
    /\ \/ HasPerfectMatch(results) /\ settings.upgrade_on_perfect_match
       \/ /\ ~HasPerfectMatch(results)
          /\ settings.upgrade_on_popular
          /\ results[1].download_count >= settings.popular_download_threshold

\* C13: when a subtitle exists for the language being acquired, a download is
\* attempted only if some candidate is a perfect match and upgrade-on-perfect
\* is enabled, or no candidate is a perfect match, upgrade-on-popular is
\* enabled and the top candidate's download count reaches the threshold; in
\* every other case the acquisition for that language fails with no download
\* call, and the step that fails it leaves every file as it was.
C13_UpgradeGate ==
    /\ [](searches # <<>> =>
            LET j == LastSearched
            IN  existing[Languages[j]] # NoPath =>
                  /\ DownloadsOf(j) # {} => UpgradeAllowed(all_results)
                  /\ ~UpgradeAllowed(all_results) =>
                        /\ ppc # "download"
                        /\ Len(langStatus) >= j
                        /\ langStatus[j] \in {"no_candidates", "kept_existing"}
                        /\ DownloadsOf(j) = {})
    /\ [][ (Len(langStatus') > Len(langStatus)
             /\ langStatus'[Len(langStatus')] = "kept_existing") =>
                /\ fs' = fs
                /\ downloaded' = downloaded ]_vars

C13_Witness ==
    /\ searches # <<>> /\ LastSearched = 1
    /\ existing[Languages[1]] # NoPath
    /\ settings.upgrade_on_popular
    /\ Len(all_results) = 2 /\ ~HasPerfectMatch(all_results)
    /\ all_results[1].download_count < settings.popular_download_threshold
    /\ langStatus = <<"kept_existing">>
    /\ downloaded = {}

\* the candidate of the latest search with SubtitleResult id
CandidateById(id) == CHOOSE c \in {all_results[k] : k \in 1..Len(all_results)} : c.id = id

\* the acquisition for the latest searched language runs in upgrade-on-popular
\* mode: a subtitle exists and no candidate is a perfect match
PopularityMode ==
    /\ searches # <<>>
    /\ existing[Languages[LastSearched]] # NoPath
    /\ all_results # <<>>
    /\ ~HasPerfectMatch(all_results)

\* C14: with an existing subtitle and no perfect match only the top-ranked
\* candidate is ever passed to provider.download, and when its download has
\* failed for good no other candidate is tried: the language fails. With an
\* existing subtitle and upgrade-on-popular disabled no candidate that is not
\* a perfect match is downloaded.
C14_OnlyTopPopularCandidate ==
    /\ [](PopularityMode =>
            DownloadsOf(LastSearched) \subseteq {<<LastSearched, all_results[1].id>>})
    /\ [][ (PopularityMode /\ DownloadFailsStep /\ ci' # ci) =>
                /\ langStatus' = Append(langStatus, "download_failed")
                /\ LanguageFailedStep(li)
                /\ downloaded' = downloaded \cup {<<li, all_results[1].id>>} ]_vars
    /\ []((/\ searches # <<>>
           /\ existing[Languages[LastSearched]] # NoPath
           /\ ~settings.upgrade_on_popular) =>
             \A d \in DownloadsOf(LastSearched) : CandidateById(d[2]).is_perfect_match)

C14_Witness ==
    /\ PopularityMode /\ LastSearched = 1
    /\ settings.upgrade_on_popular
    /\ Len(all_results) = 2
    /\ all_results[2].download_count >= settings.popular_download_threshold
    /\ langStatus = <<"download_failed">>
    /\ downloaded = {<<1, all_results[1].id>>}

\* a step that ran _download_and_verify for the current candidate, after
\* which the download loop has left that candidate without success
CandidateAbandonedStep ==
    /\ DownloadFailsStep
    /\ ~(ppc' = "download" /\ ci' = ci)

\* C15: download and verification of a candidate are one retried unit: after
\* a failed execution the unit runs again, up to 3 executions, and the download
\* loop leaves the candidate for the next one only after the 3rd execution
\* has failed.
C15_ThreeExecutionsPerCandidate ==
    [][ /\ (DownloadFailsStep /\ dattempt + 1 < DownloadRetry.max_retries) =>
              ppc' = "download" /\ ci' = ci /\ dattempt' = dattempt + 1
        /\ CandidateAbandonedStep => dattempt + 1 = DownloadRetry.max_retries ]_vars

\* a step in which _download_and_verify succeeded
DownloadSucceedsStep == ppc = "download" /\ ppc' = "done" /\ result'.success

C16_WitnessDeletionError ==
    /\ ppc = "done" /\ result.success
    /\ existing[result.language] # NoPath
    /\ existing[result.language] # result.path
    /\ Candidate.is_perfect_match
    /\ fs[existing[result.language]] = Original
    /\ fs[result.path] = Candidate.id

C18_PopularUpgradeReplacesOldFile ==
    ( /\ ppc = "done" /\ result.success
      /\ existing[result.language] # NoPath
      /\ ~HasPerfectMatch(all_results)
      /\ settings.upgrade_on_popular
      /\ settings.popular_download_threshold = 100
      /\ all_results[1].download_count = 150 ) =>
        /\ fs[result.path] = Candidate.id
        /\ \A p \in FilesBefore(result.language) : p # result.path => fs[p] = Absent
        /\ result.upgraded

\* the download calls of language index j are those for the first m candidates
\* of the ranked list
TriedFirst(j, m) ==
    DownloadsOf(j) = {<<j, all_results[k].id>> : k \in 1..m}

\* all_results is in rank order: perfect matches first, then by download
\* count, then by score
Ranked ==
    \A a, b \in 1..Len(all_results) :
        a < b => ~KeyBefore(all_results[b], all_results[a])

\* C19: when the language being acquired has no existing subtitle every
\* candidate of the ranked list is eligible and they are tried in rank order
\* without a skip; the first verified download gives success with the .srt
\* path of that language, that language, the candidate's provider and
\* upgraded = false, and no candidate ranked below it is downloaded.
C19_NoExistingTriesAllInRankOrder ==
    (searches # <<>> /\ existing[Languages[LastSearched]] = NoPath) =>
        LET j == LastSearched
        IN  /\ Ranked
            /\ \A k \in 1..Len(all_results) : Eligible(NoPath, all_results, k)
            /\ (ppc = "download") =>
                  li = j /\ (TriedFirst(j, ci - 1) \/ TriedFirst(j, ci))
            /\ (Len(langStatus) >= j /\ langStatus[j] = "download_failed") =>
                  TriedFirst(j, Len(all_results))
            /\ (ppc = "done" /\ result.success) =>
                  /\ TriedFirst(j, ci)
                  /\ result.path = SubtitlePath(Languages[j], ".srt")
                  /\ fs[result.path] = Candidate.id
                  /\ result.language = Languages[j]
                  /\ result.provider = Candidate.provider
                  /\ result.upgraded = FALSE

C19_Witness ==
    /\ ppc = "done" /\ result.success
    /\ existing[result.language] = NoPath
    /\ Len(all_results) = 2 /\ ci = 1
    /\ all_results[1].is_perfect_match /\ ~all_results[2].is_perfect_match
    /\ all_results[1].id = "s2"
    /\ downloaded = {<<1, "s2">>}
    /\ result.upgraded = FALSE

----------------------------------------------------------------------------
(* Properties of calculate_match_score (checked under SpecScore) *)

\* uppercase of a text, by table
Uppercase(text) ==
    [i \in 1..Len(text) |->
        CASE text[i] = "a" -> "A"
          [] text[i] = "b" -> "B"
          [] OTHER -> text[i]]

\* the text the tokens are looked up in: uppercase(label + " " + filename)
CandidateText == Uppercase(subtitle_release \o <<" ">> \o subtitle_filename)

\* token occurs in text at some position
OccursIn(tok, text) ==
    \E i \in 1..(Len(text) - Len(tok) + 1) :
        \A d \in 1..Len(tok) : text[i + d - 1] = tok[d]

\* k: the tokens of the fingerprint whose uppercase occurs in CandidateText
MatchingTokens ==
    Cardinality({i \in 1..Len(media_release_groups) :
                    OccursIn(Uppercase(media_release_groups[i]), CandidateText)})

\* C20: for a fingerprint of n > 0 tokens of which k occur as substrings of
\* uppercase(label + " " + filename), calculate_match_score returns
\* score = k/n and is_perfect = (k = n); for an empty fingerprint it returns
\* score 0 and is_perfect false for any candidate text.
C20_MatchScore ==
    spc = "done" =>
        LET n == Len(media_release_groups)
            k == MatchingTokens
        IN  /\ n > 0 =>
                  /\ score_out.score.den # 0
                  /\ score_out.score.num * n = k * score_out.score.den
                  /\ score_out.is_perfect <=> (k = n)
            /\ n = 0 =>
                  /\ score_out.score.num = 0
                  /\ score_out.is_perfect = FALSE

\* one of two tokens occurs once the text is in upper case
C20_Witness ==
    /\ spc = "done"
    /\ subtitle_release = <<"b", "a">>
    /\ subtitle_filename = <<"b">>
    /\ media_release_groups = <<<<"b", "a">>, <<"a", "b">>>>
    /\ score_out = [score |-> [num |-> 1, den |-> 2], is_perfect |-> FALSE]

----------------------------------------------------------------------------
(* Properties of the ranking (checked under SpecRank) *)

\* the position of the candidate with SubtitleResult id in a list
PositionIn(list, id) == CHOOSE k \in 1..Len(list) : list[k].id = id

\* candidate a ranks strictly above candidate b: perfect match first, then
\* the larger download count, then the larger score
RanksAbove(a, b) ==
    IF a.is_perfect_match # b.is_perfect_match
    THEN a.is_perfect_match
    ELSE IF a.download_count # b.download_count
    THEN a.download_count > b.download_count
    ELSE a.score > b.score

\* C21: the merged candidate list is ordered by (perfect match descending,
\* download count descending, score descending); candidates equal on the
\* three keys keep their discovery order; so a perfect match precedes every
\* candidate that is not one, whatever the download counts.
C21_RankOrder ==
    rkpc = "done" =>
        /\ Len(rank_out) = Len(rank_in)
        /\ \A k \in 1..Len(rank_in) : \E m \in 1..Len(rank_out) : rank_out[m] = rank_in[k]
        /\ \A a, b \in 1..Len(rank_out) :
              a < b =>
                 /\ ~RanksAbove(rank_out[b], rank_out[a])
                 /\ (~RanksAbove(rank_out[a], rank_out[b])) =>
                       PositionIn(rank_in, rank_out[a].id)
                           < PositionIn(rank_in, rank_out[b].id)
                 /\ rank_out[b].is_perfect_match => rank_out[a].is_perfect_match

\* download counts [5, 50, 5] with flags [false, false, true]: the perfect
\* match is first, then 50, then 5
C21_Witness ==
    /\ rkpc = "done"
    /\ Len(rank_in) = 3
    /\ [k \in 1..3 |-> rank_in[k].download_count] = <<5, 50, 5>>
    /\ [k \in 1..3 |-> rank_in[k].is_perfect_match] = <<FALSE, FALSE, TRUE>>
    /\ [k \in 1..3 |-> rank_out[k].id] = <<"s3", "s2", "s1">>

----------------------------------------------------------------------------
(* Properties of handle_event (checked under SpecWebhook) *)

\* the calls of handle_event on self.plex named call
PlexCallsOf(call) == {k \in 1..Len(plex_calls) : plex_calls[k].call = call}

\* the calls that change something in Plex
PlexMutations ==
    PlexCallsOf("refresh_metadata") \cup PlexCallsOf("set_active_session_subtitle")
        \cup PlexCallsOf("set_subtitle_stream")

\* the activation of the active session failed at every attempt
SessionAttemptsFailed ==
    /\ Cardinality(PlexCallsOf("set_active_session_subtitle")) = MAX_SESSION_RETRIES
    /\ \A k \in PlexCallsOf("set_active_session_subtitle") :
          plex_calls[k].returned # "True"

\* the reply carries the acquired subtitle
RepliesAcquired ==
    /\ response.status = "success" /\ response.code = 200
    /\ response.subtitle = result.path
    /\ response.language = result.language
    /\ response.provider = result.provider
    /\ response.upgraded = result.upgraded

\* C27: handling a play or resume webhook always ends with a reply, and per
\* webhook there are at most languages x providers searches, at most 3
\* executions of download+verify per candidate, at most 3 attempts on the
\* active session and at most 1 default-stream call.
C27_WebhookTerminatesWithinCaps ==
    /\ <>(hpc = "done")
    /\ (payload.json = "object" /\ payload.event \in PROCESSABLE_EVENTS
          /\ payload.metadata # "null") =>
            <>(hpc = "done" /\ response.status # "raised")
    /\ [](/\ Len(searches) <= Len(Languages) * Len(Providers)
          /\ ppc = "download" => dattempt < 3
          /\ Cardinality(PlexCallsOf("set_active_session_subtitle")) <= 3
          /\ Cardinality(PlexCallsOf("set_subtitle_stream")) <= 1)
    /\ [][ /\ (ppc # "download" /\ ppc' = "download") => dattempt' = 0
           /\ (ppc = "download" /\ ppc' = "download") =>
                 \/ li' = li /\ ci' = ci /\ dattempt' = dattempt + 1
                 \/ li' = li /\ ci' > ci /\ dattempt' = 0 ]_vars

\* the results of the calls of handle_event on self.plex named call, in order
ReturnedBy(call) ==
    LET picked == SelectSeq(plex_calls, LAMBDA c : c.call = call)
    IN  [k \in 1..Len(picked) |-> picked[k].returned]

\* no provider was searched and nothing was downloaded
NoProviderCall == searches = <<>> /\ downloaded = {} /\ ppc = "uncalled"

\* C22: with auto-select enabled, when all 3 attempts on the active session
\* fail, the default-stream activation is invoked exactly once and is not
\* retried; whether that call succeeds or fails, the reply still reports the
\* acquisition success (200) with path, language, provider and upgraded.
C22_DefaultStreamOnceAfterSessionFailure ==
    /\ (auto_select /\ SessionAttemptsFailed) => hpc \in {"default", "done"}
    /\ (auto_select /\ SessionAttemptsFailed /\ hpc = "default") =>
            PlexCallsOf("set_subtitle_stream") = {}
    /\ (auto_select /\ SessionAttemptsFailed /\ hpc = "done") =>
            /\ Cardinality(PlexCallsOf("set_subtitle_stream")) = 1
            /\ plex_calls[Len(plex_calls)].call = "set_subtitle_stream"
            /\ RepliesAcquired

C22_Witness ==
    /\ hpc = "done" /\ auto_select
    /\ ReturnedBy("set_active_session_subtitle") = <<"False", "ValueError", "False">>
    /\ ReturnedBy("set_subtitle_stream") = <<"False">>
    /\ RepliesAcquired /\ result.success /\ result.path # NoPath

\* C23: neither activation path is invoked unless the acquisition succeeded
\* and auto-select is enabled; a failed or kept-existing acquisition gives the
\* not-found reply and no call that changes anything in Plex.
C23_ActivationOnlyAfterSuccess ==
    /\ (PlexCallsOf("set_active_session_subtitle") # {}
           \/ PlexCallsOf("set_subtitle_stream") # {}) =>
            (ppc = "done" /\ result.success /\ auto_select)
    /\ PlexMutations # {} => (ppc = "done" /\ result.success)
    /\ (hpc = "done" /\ ppc = "done" /\ ~result.success) =>
            /\ response.status = "not_found" /\ response.code = 404
            /\ PlexMutations = {}

C23_Witness ==
    /\ hpc = "done" /\ ppc = "done" /\ auto_select
    /\ "existing" \in result.keys /\ result.existing # NoPath
    /\ response.status = "not_found" /\ response.code = 404
    /\ PlexMutations = {}

\* C24: a webhook whose event is neither media.play nor media.resume is
\* answered ignored (200) and triggers no Plex call and no provider call,
\* also when it carries no rating key.
C24_OtherEventsIgnored ==
    /\ (payload.json = "object" /\ payload.event \notin {"media.play", "media.resume"}) =>
            /\ plex_calls = <<>> /\ NoProviderCall
            /\ hpc = "done" =>
                  /\ response.status = "ignored" /\ response.code = 200
                  /\ response.event = payload.event
    /\ (plex_calls # <<>> \/ ~NoProviderCall) =>
            payload.event \in {"media.play", "media.resume"}

C24_Witness ==
    /\ hpc = "done" /\ payload.event = "media.pause"
    /\ payload.metadata = "no_key"
    /\ response.status = "ignored" /\ response.code = 200
    /\ plex_calls = <<>> /\ NoProviderCall

\* the payload is an object without a usable Metadata.ratingKey
WithoutRatingKey == payload.metadata \in {"missing", "no_key", "empty_key"}

C25_WitnessInvalidJson ==
    /\ hpc = "done" /\ payload.json = "invalid"
    /\ response.code = 400 /\ response.message = "Invalid JSON"

\* C30: the active session is tried at most 3 times, with waits of 3 and then
\* 6 seconds between the attempts; a false result and a raised exception both
\* count as a failed attempt; after the first true result there is no further
\* attempt and the default-stream activation is never invoked.
C30_SessionAttempts ==
    LET tried == ReturnedBy("set_active_session_subtitle")
    IN  /\ Len(tried) <= 3
        /\ \A k \in 1..Len(tried) : k < Len(tried) => tried[k] \in {"False", "ValueError"}
        /\ \A k \in 1..Len(session_waits) : k <= 2 /\ session_waits[k] = <<3, 6>>[k]
        /\ hpc = "session" => Len(session_waits) = Len(tried)
        /\ hpc \in {"default", "done"} /\ tried # <<>> =>
                Len(session_waits) = Len(tried) - 1
        /\ (tried # <<>> /\ tried[Len(tried)] = "True") =>
                /\ hpc = "done"
                /\ plex_calls[Len(plex_calls)].call = "set_active_session_subtitle"
                /\ PlexCallsOf("set_subtitle_stream") = {}
                /\ RepliesAcquired
        /\ PlexCallsOf("set_subtitle_stream") # {} =>
                (Len(tried) = 3 /\ tried[3] \in {"False", "ValueError"})

C30_Witness ==
    /\ hpc = "done"
    /\ ReturnedBy("set_active_session_subtitle") = <<"ValueError", "False", "True">>
    /\ session_waits = <<3, 6>>
    /\ PlexCallsOf("set_subtitle_stream") = {}
    /\ RepliesAcquired

\* a play or resume webhook that used every cap: both languages searched,
\* three attempts on the active session, one default-stream call
C27_Witness ==
    /\ hpc = "done" /\ response.status = "success"
    /\ payload.event = "media.play"
    /\ Len(Languages) = 2
    /\ Len(searches) = Len(Languages) * Len(Providers)
    /\ Cardinality(PlexCallsOf("set_active_session_subtitle")) = 3
    /\ Cardinality(PlexCallsOf("set_subtitle_stream")) = 1

\* the third execution of download+verify for one candidate is about to run
C27_WitnessThirdExecution ==
    /\ hpc = "acquire" /\ ppc = "download" /\ dattempt = 2

\* the executions of _download_and_verify that verify_language rejected
RejectedExecutions == {k \in 1..Len(vlog) : vlog[k].verified = "False"}

C29_WitnessDownloadedAgain ==
    /\ vpc = "returned" /\ vreturn = "True"
    /\ Len(vlog) = 2 /\ RejectedExecutions = {1}
    /\ vlog[2].download = "True" /\ vlog[2].verified = "True"
    /\ vfile = Written

\* every fingerprint token is a substring of uppercase(label + " " + filename)
AllTokensIn(candidate) ==
    \A g \in 1..Len(release_groups) :
        Contains(Upper(candidate.release \o <<Blank>> \o candidate.filename),
                 release_groups[g])

\* C28: for every candidate the pipeline ranks, the perfect-match flag is true
\* if and only if the fingerprint is non-empty and every fingerprint token is
\* a substring of uppercase(release label + " " + filename) of the candidate;
\* such a candidate makes the ranked list one with a perfect match.
C28_PerfectFlagFromFingerprint ==
    sepc = "ranked" =>
        /\ \A k \in 1..Len(search_results) :
              search_results[k].is_perfect_match <=>
                  (release_groups # <<>> /\ AllTokensIn(search_results[k]))
        /\ has_perfect_match <=>
              (\E k \in 1..Len(search_results) :
                  release_groups # <<>> /\ AllTokensIn(search_results[k]))

\* the callers that hold the lock according to their position
InLock == {c \in Callers : apc[c] \in {"recheck", "login", "set_token", "set_expiry", "return"}}

\* C26: under every interleaving of concurrent callers of _authenticate at
\* most one login request is issued per expiry window: after a login that
\* succeeded no login request follows before TokenLifetime has passed; a
\* caller whose unlocked check found a non-expired token returns without
\* taking the lock; a caller that holds the lock checks again and sends a
\* login request only if the token is still missing or expired.
C26_OneLoginPerExpiryWindow ==
    /\ [](/\ \A i, j \in 1..Len(logins) :
                (i < j /\ logins[i].ok) => logins[j].at >= logins[i].at + TokenLifetime
          /\ InLock = IF token_lock = 0 THEN {} ELSE {token_lock})
    /\ [][ /\ logins' # logins =>
                /\ ~TokenValid(token, token_expiry, now)
                /\ token_lock # 0 /\ apc[token_lock] = "login"
                /\ logins'[Len(logins')].by = token_lock
           /\ \A c \in Callers :
                /\ (apc[c] = "fast" /\ TokenValid(token, token_expiry, now)) =>
                        apc'[c] \in {"fast", "fast_return"}
                /\ apc[c] = "fast_return" =>
                        /\ apc'[c] \in {"fast_return", "idle"}
                        /\ token_lock' # c
                        /\ apc'[c] = "idle" => auth_result'[c] = token
                /\ (apc[c] = "recheck" /\ TokenValid(token, token_expiry, now)) =>
                        apc'[c] \in {"recheck", "idle"} ]_vars

\* both callers found no token at the same time; one logged in, the other
\* took the lock after it and returned the same token without a login
C26_Witness ==
    /\ Len(logins) = 1 /\ logins[1].ok
    /\ \A c \in Callers : apc[c] = "idle" /\ auth_result[c] = 1
    /\ now < token_expiry

\* one caller waits for the lock while the other one, holding it, has sent
\* the login request
C26_WitnessConcurrent ==
    \E c, d \in Callers :
        /\ apc[c] = "set_token" /\ token_lock = c
        /\ apc[d] = "acquire"
        /\ Len(logins) = 1

\* a second window: a login after the first token expired
C26_WitnessNextWindow ==
    /\ Len(logins) = 2 /\ logins[1].ok /\ logins[2].ok
    /\ logins[1].by # logins[2].by
    /\ token = 2

----------------------------------------------------------------------------
(* The worker pool of the webhook handler (plex/webhook.py).  handle_event
   is a coroutine on the event loop; every call of a collaborator goes
   through _run_in_executor, which hands it to self._executor and awaits
   the future, so the loop is free while the call runs. *)

\* the blocking calls of handle_event, in the order it makes them
BlockingCalls == <<"get_media_info", "download_subtitles", "refresh_metadata",
                   "set_active_session_subtitle", "set_subtitle_stream">>

\* the calls made as await self._run_in_executor(...)
ExecutorCalls == {"get_media_info", "download_subtitles", "refresh_metadata",
                  "set_active_session_subtitle", "set_subtitle_stream"}

Offloaded(call) == call \in ExecutorCalls

\* what handle_event may do after call number c returned: 0 is the reply,
\* the session call may be repeated, the default stream follows it
NextCalls(c) ==
    CASE c = 1 -> {0, 2}
      [] c = 2 -> {0, 3}
      [] c = 3 -> {0, 4}
      [] c = 4 -> {0, 4, 5}
      [] OTHER -> {0}

Resume(w, nxt) ==
    /\ wcall' = [wcall EXCEPT ![w] = nxt]
    /\ wpc' = [wpc EXCEPT ![w] = IF nxt = 0 THEN "replied" ELSE "loop"]

Running == {w \in Webhooks : wpc[w] = "running"}

PoolInit ==
    /\ wpc = [w \in Webhooks |-> "loop"]
    /\ wcall = [w \in Webhooks |-> 1]
    /\ work_queue = <<>>
    /\ threads = [t \in PoolThreads |-> 0]
    /\ ran_on = {}

PoolSpecInit ==
    /\ RetryInit
    /\ PipeIdle
    /\ ScoreIdle
    /\ RankIdle
    /\ HookIdle
    /\ AgainIdle
    /\ ProviderDownloadIdle
    /\ RequestIdle
    /\ ExtractIdle
    /\ RaceIdle
    /\ VerifyIdle
    /\ AuthIdle
    /\ SearchIdle
    /\ PoolInit

\* the coroutine of webhook w reaches its next blocking call:
\* loop.run_in_executor(self._executor, func, *args) queues it and the
\* coroutine awaits the future; a call made directly would run on the loop
PoolSubmit(w, nxt) ==
    /\ wpc[w] = "loop"
    /\ nxt \in NextCalls(wcall[w])
    /\ IF Offloaded(BlockingCalls[wcall[w]])
       THEN /\ work_queue' = Append(work_queue, w)
            /\ wpc' = [wpc EXCEPT ![w] = "queued"]
            /\ UNCHANGED <<wcall, ran_on>>
       ELSE /\ ran_on' = ran_on \cup {[call |-> BlockingCalls[wcall[w]],
                                      on_worker |-> FALSE]}
            /\ Resume(w, nxt)
            /\ UNCHANGED work_queue
    /\ UNCHANGED threads
    /\ UNCHANGED notPoolVars

\* a thread of the pool without work takes the oldest queued call
PoolStart(t) ==
    /\ threads[t] = 0
    /\ work_queue # <<>>
    /\ threads' = [threads EXCEPT ![t] = Head(work_queue)]
    /\ work_queue' = Tail(work_queue)
    /\ wpc' = [wpc EXCEPT ![Head(work_queue)] = "running"]
    /\ ran_on' = ran_on \cup {[call |-> BlockingCalls[wcall[Head(work_queue)]],
                               on_worker |-> t \in PoolThreads]}
    /\ UNCHANGED wcall
    /\ UNCHANGED notPoolVars

\* the call returns on its thread; the coroutine that awaited it resumes
PoolReturn(t, nxt) ==
    /\ threads[t] # 0
    /\ nxt \in NextCalls(wcall[threads[t]])
    /\ threads' = [threads EXCEPT ![t] = 0]
    /\ Resume(threads[t], nxt)
    /\ UNCHANGED <<work_queue, ran_on>>
    /\ UNCHANGED notPoolVars

NextPool ==
    \/ \E w \in Webhooks : \E nxt \in 0..5 : PoolSubmit(w, nxt)
    \/ \E t \in PoolThreads : PoolStart(t)
    \/ \E t \in PoolThreads : \E nxt \in 0..5 : PoolReturn(t, nxt)

SpecPool == PoolSpecInit /\ [][NextPool]_vars

\* C31: every blocking call of the handler (media lookup, pipeline,
\* refresh, session selection, default stream) runs on a thread of the
\* pool, never on the event-loop thread, and at most 2 of them run at once.
C31_BlockingCallsOnPool ==
    /\ Cardinality(Running) <= 2
    /\ \A r \in ran_on : r.on_worker
    /\ \A w \in Webhooks : wpc[w] # "inline"
    /\ \A w \in Running : \E t \in DOMAIN threads : threads[t] = w

\* two calls run, a third waits in the queue, and each of the five calls
\* has been made
C31_Witness ==
    /\ Cardinality(Running) = 2
    /\ Len(work_queue) = 1
    /\ {r.call : r \in ran_on} = ExecutorCalls

\* C39: the metadata refresh is invoked exactly once per successful
\* acquisition, after the pipeline returned success and before the first
\* attempt on the active session; never when the acquisition failed; and a
\* refresh that returned False changes neither the activation steps nor the
\* success reply.
C39_RefreshOncePerAcquisition ==
    /\ Cardinality(PlexCallsOf("refresh_metadata")) <= 1
    /\ PlexCallsOf("refresh_metadata") # {} => (ppc = "done" /\ result.success)
    /\ (hpc \in {"session", "default", "done"} /\ ppc = "done" /\ result.success) =>
            Cardinality(PlexCallsOf("refresh_metadata")) = 1
    /\ (hpc = "done" /\ ppc = "done" /\ ~result.success) =>
            PlexCallsOf("refresh_metadata") = {}
    /\ \A k \in PlexCallsOf("refresh_metadata") :
          \A j \in PlexCallsOf("set_active_session_subtitle")
                      \cup PlexCallsOf("set_subtitle_stream") : k < j
    /\ (hpc = "done" /\ \E k \in PlexCallsOf("refresh_metadata") :
                            plex_calls[k].returned = "False") =>
            /\ RepliesAcquired
            /\ auto_select <=> PlexCallsOf("set_active_session_subtitle") # {}
            /\ PlexCallsOf("set_subtitle_stream") # {} <=>
                    (auto_select /\ SessionAttemptsFailed)

\* the refresh returned False, the first attempt on the active session
\* followed it and succeeded, and the reply reports the acquisition
C39_Witness ==
    /\ hpc = "done" /\ auto_select /\ result.success
    /\ ReturnedBy("refresh_metadata") = <<"False">>
    /\ ReturnedBy("set_active_session_subtitle") = <<"True">>
    /\ RepliesAcquired

\* the acquisition failed and the webhook was answered without a refresh
C39_WitnessFailed ==
    /\ hpc = "done" /\ ppc = "done" /\ ~result.success
    /\ searches # <<>>
    /\ PlexCallsOf("refresh_metadata") = {}
    /\ response.code = 404

----------------------------------------------------------------------------
(* Properties of the subtitle files across one invocation (checked under Spec) *)

\* C34: when download_subtitles returns success = false, every subtitle file
\* the existence probe found at the start of the invocation still exists
\* with unchanged content, also when the existing file is at the .srt output
\* path and the attempt to upgrade it fails download or verification.
C34_FailureKeepsExistingFiles ==
    (ppc = "done" /\ ~result.success) =>
        \A p \in Paths : fs0[p] # Absent => fs[p] = fs0[p]

----------------------------------------------------------------------------
(* Two invocations of download_subtitles for the same media file and
   language, each on its own thread of the pool.  They share nothing but the
   file system: output_path is the same for both.  Each step below is one
   file-system operation of one invocation; the steps of the two interleave
   freely.  Each invocation has one candidate to download. *)

\* what download number n of invocation i writes; lang_ok: whether
\* verify_language accepts that text
Downloads(i, n) == {[by |-> i, n |-> n, lang_ok |-> ok] : ok \in BOOLEAN}

\* os.path.exists(path)
Exists(content) == content # NoFile

\* A mutation of WriteFile: the file is created only when none is there.
WriteFileExclusive(old, new) == IF old = NoFile THEN new ELSE old

\* open(output_path, "wb") and f.write(...)
WriteFile(old, new) == new

\* detect_subtitle_language returns None when the file cannot be opened;
\* verify_language returns True when nothing was detected
verify_language(content) == content = NoFile \/ content.lang_ok

RaceInit ==
    /\ inv_pc = [i \in Invocations |-> "probe"]
    /\ inv_attempt = [i \in Invocations |-> 0]
    /\ inv_matching \in BOOLEAN
    /\ disk = NoFile
    /\ last_written = NoFile

RaceSpecInit ==
    /\ RetryInit
    /\ PipeIdle
    /\ ScoreIdle
    /\ RankIdle
    /\ HookIdle
    /\ AgainIdle
    /\ ProviderDownloadIdle
    /\ RequestIdle
    /\ ExtractIdle
    /\ VerifyIdle
    /\ AuthIdle
    /\ SearchIdle
    /\ PoolIdle
    /\ RaceInit

Goto(i, pos) == inv_pc' = [inv_pc EXCEPT ![i] = pos]

\* _get_existing_subtitles and the skip of the first language: with release
\* matching disabled an existing file ends the invocation
RaceProbe(i) ==
    /\ inv_pc[i] = "probe"
    /\ IF Exists(disk) /\ ~inv_matching
       THEN Goto(i, "kept")
       ELSE Goto(i, "download")
    /\ UNCHANGED <<inv_attempt, inv_matching, disk, last_written>>
    /\ UNCHANGED notRaceVars

\* provider.download writes the file and returns True
RaceDownload(i) ==
    /\ inv_pc[i] = "download"
    /\ \E content \in Downloads(i, inv_attempt[i] + 1) :
          /\ disk' = WriteFile(disk, content)
          /\ last_written' = content
    /\ Goto(i, "verify")
    /\ UNCHANGED <<inv_attempt, inv_matching>>
    /\ UNCHANGED notRaceVars

\* provider.download returns False: _download_and_verify returns False,
\* which is not retried, and the candidate has failed
RaceDownloadFails(i) ==
    /\ inv_pc[i] = "download"
    /\ Goto(i, "failed")
    /\ UNCHANGED <<inv_attempt, inv_matching, disk, last_written>>
    /\ UNCHANGED notRaceVars

\* verify_language(output_path, language) reads what is at output_path now
RaceVerify(i) ==
    /\ inv_pc[i] = "verify"
    /\ IF verify_language(disk)
       THEN Goto(i, "verified")
       ELSE Goto(i, "remove")
    /\ UNCHANGED <<inv_attempt, inv_matching, disk, last_written>>
    /\ UNCHANGED notRaceVars

\* os.remove(output_path) and `raise Exception`; os.remove of a missing file
\* raises FileNotFoundError.  Either way the wrapper sees an Exception and
\* runs _download_and_verify again while attempts are left.
RaceRemove(i) ==
    /\ inv_pc[i] = "remove"
    /\ disk' = NoFile
    /\ IF /\ IsRetryable("Exception", DownloadRetry.exceptions)
          /\ HasAttemptsLeft(inv_attempt[i], DownloadRetry.max_retries)
       THEN /\ inv_attempt' = [inv_attempt EXCEPT ![i] = @ + 1]
            /\ Goto(i, "download")
       ELSE /\ Goto(i, "failed")
            /\ UNCHANGED inv_attempt
    /\ UNCHANGED <<inv_matching, last_written>>
    /\ UNCHANGED notRaceVars

\* _download_with_retry returns {"success": True, "path": output_path, ...}
\* (existing_path is None or output_path itself: nothing else is removed)
RaceReturn(i) ==
    /\ inv_pc[i] = "verified"
    /\ Goto(i, "success")
    /\ UNCHANGED <<inv_attempt, inv_matching, disk, last_written>>
    /\ UNCHANGED notRaceVars

NextRace ==
    \E i \in Invocations :
        \/ RaceProbe(i)
        \/ RaceDownload(i)
        \/ RaceDownloadFails(i)
        \/ RaceVerify(i)
        \/ RaceRemove(i)
        \/ RaceReturn(i)

SpecRace == RaceSpecInit /\ [][NextRace]_vars

Succeeded == {i \in Invocations : inv_pc[i] = "success"}

\* C32: two invocations for the same media file are not mutually excluded;
\* when both succeed, the file on disk is the one written last.
C32_LastWriterWins ==
    Succeeded = Invocations => (Exists(disk) /\ disk = last_written)

\* both passed the probe, both downloaded to output_path, both succeeded,
\* and the file is the second invocation's, written over the first's
C32_Witness ==
    /\ Succeeded = Invocations
    /\ \A i \in Invocations : inv_attempt[i] = 0
    /\ disk = last_written /\ disk.by = 2

\* both invocations are past the probe and neither has returned
C32_WitnessBothPassedProbe ==
    /\ \A i \in Invocations : inv_pc[i] \in {"download", "verify"}
    /\ Exists(disk)

\* C35: whenever an invocation returns success with path p, a subtitle file
\* exists at p at the moment of return, also when a second invocation for
\* the same file runs concurrently and deletes its download after a failed
\* verification.
C35_FileExistsAtReturn ==
    [][\A i \in Invocations :
          (inv_pc[i] # "success" /\ inv_pc'[i] = "success") => Exists(disk')]_vars

----------------------------------------------------------------------------
(* extract_release_info (core/release_matcher.py): the release fingerprint
   of a media file name, from what guessit finds in it. *)

\* one token of a guess: a string of one character
Tokens == [1..1 -> Chars]

\* a field of the guess: missing or a token
FieldValues == {<<>>} \cup Tokens

\* result["source"]: missing, one string, or a list of strings
SourceValues ==
    {[is_list |-> FALSE, items |-> <<>>]}
        \cup {[is_list |-> FALSE, items |-> <<t>>] : t \in Tokens}
        \cup {[is_list |-> TRUE, items |-> l] :
                 l \in UNION {[1..n -> Tokens] : n \in 0..MaxSources}}

\* guessit(filename) raised
GuessRaises == [NoGuess EXCEPT !.raises = TRUE]

GuessResults ==
    {GuessRaises} \cup
    [raises : {FALSE}, release_group : FieldValues, screen_size : FieldValues,
     source : SourceValues, video_codec : FieldValues]

\* if result.get(key): release_info.append(result[key].upper())
AppendField(so_far, value) ==
    IF value # <<>> THEN Append(so_far, Upper(value)) ELSE so_far

\* if result.get("source"): extend by the uppercased list, or append the
\* uppercased string
AppendSource(so_far, src) ==
    IF src.items = <<>> THEN so_far
    ELSE IF src.is_list
    THEN so_far \o [k \in 1..Len(src.items) |-> Upper(src.items[k])]
    ELSE Append(so_far, Upper(src.items[1]))

\* release_info before the duplicates are removed
Collected(g) ==
    AppendField(
        AppendSource(
            AppendField(AppendField(<<>>, g.release_group), g.screen_size),
            g.source),
        g.video_codec)

\* A mutation of Unique: the duplicates are kept.
UniqueNot(items) == items

RECURSIVE UniqueFrom(_, _, _, _)
\* the loop over release_info with `seen` and `unique_info`
UniqueFrom(items, k, seen_items, unique_info) ==
    IF k > Len(items) THEN unique_info
    ELSE IF items[k] \in seen_items
    THEN UniqueFrom(items, k + 1, seen_items, unique_info)
    ELSE UniqueFrom(items, k + 1, seen_items \cup {items[k]},
                    Append(unique_info, items[k]))

Unique(items) == UniqueFrom(items, 1, {}, <<>>)

\* the body of the try, and the except branch that returns []
extract_release_info(g) == IF g.raises THEN <<>> ELSE Unique(Collected(g))

ExtractInit ==
    /\ xpc = "call"
    /\ guess \in GuessResults
    /\ release_info = <<>>

ExtractSpecInit ==
    /\ RetryInit
    /\ PipeIdle
    /\ ScoreIdle
    /\ RankIdle
    /\ HookIdle
    /\ AgainIdle
    /\ ProviderDownloadIdle
    /\ RequestIdle
    /\ VerifyIdle
    /\ AuthIdle
    /\ SearchIdle
    /\ PoolIdle
    /\ RaceIdle
    /\ ExtractInit

ExtractCall ==
    /\ xpc = "call"
    /\ release_info' = extract_release_info(guess)
    /\ xpc' = "returned"
    /\ UNCHANGED guess
    /\ UNCHANGED notExtractVars

SpecExtract == ExtractSpecInit /\ [][ExtractCall]_vars

\* the values present in the guess, in the order (release group, resolution,
\* source values, codec), before any conversion
PresentValues ==
    (IF guess.release_group = <<>> THEN <<>> ELSE <<guess.release_group>>)
        \o (IF guess.screen_size = <<>> THEN <<>> ELSE <<guess.screen_size>>)
        \o guess.source.items
        \o (IF guess.video_codec = <<>> THEN <<>> ELSE <<guess.video_codec>>)

IsUpperCase(str) == \A k \in 1..Len(str) : str[k] \notin {"a", "b"}

\* the first position of PresentValues whose uppercase is tok
FirstOccurrence(tok) ==
    CHOOSE k \in 1..Len(PresentValues) :
        /\ Upper(PresentValues[k]) = tok
        /\ \A j \in 1..(k - 1) : Upper(PresentValues[j]) # tok

\* C33: the fingerprint is a sequence of uppercase tokens without
\* duplicates, in first-occurrence order over (release group, resolution,
\* source values, codec) with a list-valued source flattened; when the
\* guesser raises, the extractor returns the empty sequence.
C33_Fingerprint ==
    xpc = "returned" =>
        IF guess.raises
        THEN release_info = <<>>
        ELSE /\ \A k \in 1..Len(release_info) : IsUpperCase(release_info[k])
             /\ \A j, k \in 1..Len(release_info) :
                   j # k => release_info[j] # release_info[k]
             /\ {release_info[k] : k \in 1..Len(release_info)} =
                   {Upper(PresentValues[k]) : k \in 1..Len(PresentValues)}
             /\ \A j, k \in 1..Len(release_info) :
                   j < k => FirstOccurrence(release_info[j])
                                < FirstOccurrence(release_info[k])

\* release group "a" and codec "A" are one token after uppercasing, and the
\* two values of a list-valued source keep their order between them
C33_Witness ==
    /\ xpc = "returned" /\ ~guess.raises
    /\ guess.release_group = <<"a">> /\ guess.video_codec = <<"A">>
    /\ guess.screen_size = <<>>
    /\ guess.source = [is_list |-> TRUE, items |-> << <<"b">>, <<"a">> >>]
    /\ release_info = << <<"A">>, <<"B">> >>

\* the guesser raised and the extractor returned the empty list
C33_WitnessRaised ==
    xpc = "returned" /\ guess.raises /\ release_info = <<>>

----------------------------------------------------------------------------
(* OpenSubtitlesProvider._make_request (providers/opensubtitles.py 124-179)
   over BaseHTTPClient._make_request (utils/http_client.py 63-123): what one
   call does with the answer of the API.  Each caller makes one call;
   _authenticate is taken as one step (its locking is modelled above). *)

\* what the API answers to a request: a JSON body, 401, another error
\* status, or a 200 whose body is not JSON
HttpAnswers == {"200", "401", "500", "bad_json"}

\* the exception that reaches `except Exception as e` of the provider's
\* _make_request: raise_for_status raises HTTPError inside the base client,
\* whose `except RequestException` raises PlexAPIError in its place;
\* response.json() raises a JSONDecodeError whose response is None
RaisedFor(answer) ==
    CASE answer \in {"401", "500"} -> "PlexAPIError"
      [] answer = "bad_json" -> "JSONDecodeError"
      [] OTHER -> "none"

\* e.response.status_code == 401, for an error that carries a response
IsAuthError(answer, kind) == CarriesResponse(kind) /\ answer = "401"

RequestInit ==
    /\ qpc = [c \in Callers |-> "call"]
    /\ retry_on_auth_error \in [Callers -> BOOLEAN]
    /\ answers = [c \in Callers |-> <<>>]
    /\ api_token \in {0, 1}
    /\ login_count = api_token

RequestSpecInit ==
    /\ RetryInit
    /\ PipeIdle
    /\ ScoreIdle
    /\ RankIdle
    /\ HookIdle
    /\ AgainIdle
    /\ ProviderDownloadIdle
    /\ VerifyIdle
    /\ AuthIdle
    /\ SearchIdle
    /\ PoolIdle
    /\ RaceIdle
    /\ ExtractIdle
    /\ RequestInit

\* self._authenticate() at the head of _make_request: the cached token, or
\* a login that sets a new one
RequestAuthenticate(c) ==
    /\ qpc[c] = "call"
    /\ IF api_token # 0
       THEN UNCHANGED <<api_token, login_count>>
       ELSE /\ login_count' = login_count + 1
            /\ api_token' = login_count + 1
    /\ qpc' = [qpc EXCEPT ![c] = "send"]
    /\ UNCHANGED <<retry_on_auth_error, answers>>
    /\ UNCHANGED notRequestVars

\* the login of _authenticate fails: OpenSubtitlesError leaves _make_request
RequestLoginFails(c) ==
    /\ qpc[c] = "call"
    /\ api_token = 0
    /\ login_count' = login_count + 1
    /\ qpc' = [qpc EXCEPT ![c] = "raised"]
    /\ UNCHANGED <<retry_on_auth_error, answers, api_token>>
    /\ UNCHANGED notRequestVars

\* super()._make_request(...), response.json() and the except branch: an
\* auth error with retry_on_auth_error clears the token and calls
\* _make_request again with retry_on_auth_error=False (which authenticates
\* first); every other error is raised as OpenSubtitlesError
RequestSend(c) ==
    /\ qpc[c] = "send"
    /\ \E answer \in HttpAnswers :
          /\ answers' = [answers EXCEPT ![c] = Append(@, answer)]
          /\ IF answer = "200"
             THEN /\ qpc' = [qpc EXCEPT ![c] = "returned"]
                  /\ UNCHANGED <<retry_on_auth_error, api_token>>
             ELSE IF IsAuthError(answer, RaisedFor(answer)) /\ retry_on_auth_error[c]
             THEN /\ api_token' = 0
                  /\ retry_on_auth_error' = [retry_on_auth_error EXCEPT ![c] = FALSE]
                  /\ qpc' = [qpc EXCEPT ![c] = "call"]
             ELSE /\ qpc' = [qpc EXCEPT ![c] = "raised"]
                  /\ UNCHANGED <<retry_on_auth_error, api_token>>
    /\ UNCHANGED login_count
    /\ UNCHANGED notRequestVars

NextRequest ==
    \E c \in Callers :
        \/ RequestAuthenticate(c)
        \/ RequestLoginFails(c)
        \/ RequestSend(c)

SpecRequest == RequestSpecInit /\ [][NextRequest]_vars

\* C36: a request answered with HTTP 401 while retry_on_auth_error is true
\* makes the provider clear its token, log in again and re-issue the request
\* exactly once, with retry_on_auth_error false; a second 401 ends in a
\* provider error without a further login.  (retry_on_auth_error of a call
\* changes only when the request is re-issued, so a call that has ended with
\* the argument still true was not re-issued.)
C36_ReauthenticateOn401 ==
    \A c \in Callers :
        (qpc[c] \in {"returned", "raised"} /\ answers[c] # <<>>
            /\ answers[c][1] = "401") =>
                /\ ~retry_on_auth_error[c]
                /\ Len(answers[c]) <= 2
                /\ answers[c][Len(answers[c])] = "401" => qpc[c] = "raised"

----------------------------------------------------------------------------
(* OpenSubtitlesProvider.download (providers/opensubtitles.py 252-314):
   _download_with_retry under retry_with_backoff(max_retries=3,
   base_delay=2.0, exceptions=(HTTPError, RequestException)), inside
   `try ... except Exception: return False`. *)

ProviderRetry ==
    [max_retries |-> 3, base_delay |-> 2,
     exceptions |-> {"HTTPError", "RequestException"}]

\* a file whose write was interrupted
Partial == "partial"

\* how the request for the download link fails: the login fails, the API
\* answers with an error status, or the request times out
LinkFailures == {"login_failed", "link_http_error", "link_timeout"}

\* how fetching the file fails: raise_for_status, or the connection
FetchFailures == {"fetch_http_error", "fetch_timeout"}

\* the failures of an execution that are HTTP or request errors
TransportFailures == {"link_http_error", "link_timeout"} \cup FetchFailures

\* the exception _download_with_retry raises for a failure: _authenticate and
\* _make_request raise OpenSubtitlesError for whatever went wrong in them;
\* requests.get and raise_for_status raise requests' own exceptions; makedirs,
\* open and write raise OSError
RaisedByDownload(failure) ==
    CASE failure \in LinkFailures -> "OpenSubtitlesError"
      [] failure = "fetch_http_error" -> "HTTPError"
      [] failure = "fetch_timeout" -> "RequestException"
      [] OTHER -> "OSError"

ProviderDownloadInit ==
    /\ dlpc = "run"
    /\ dl_attempt = 0
    /\ dl_log = <<>>
    /\ dl_file \in {Absent, Original}
    /\ dl_return = "none"

ProviderDownloadSpecInit ==
    /\ RetryInit
    /\ PipeIdle
    /\ ScoreIdle
    /\ RankIdle
    /\ HookIdle
    /\ AgainIdle
    /\ VerifyIdle
    /\ AuthIdle
    /\ SearchIdle
    /\ PoolIdle
    /\ RaceIdle
    /\ ExtractIdle
    /\ RequestIdle
    /\ ProviderDownloadInit

\* download returns value
DownloadEnds(value) ==
    /\ dlpc' = "returned"
    /\ dl_return' = value
    /\ UNCHANGED dl_attempt

\* the wrapper after an execution raised: another execution for an exception
\* of the tuple while attempts are left; otherwise the exception leaves the
\* wrapper and `except Exception` of download returns False
DownloadAfterException(kind) ==
    IF /\ IsRetryable(kind, ProviderRetry.exceptions)
       /\ HasAttemptsLeft(dl_attempt, ProviderRetry.max_retries)
    THEN /\ dl_attempt' = dl_attempt + 1
         /\ UNCHANGED <<dlpc, dl_return>>
    ELSE DownloadEnds("False")

EndedWith(how) == dl_log' = Append(dl_log, how)

\* an execution fails before it has a download link
DownloadLinkFails ==
    /\ dlpc = "run"
    /\ \E failure \in LinkFailures :
          /\ EndedWith(failure)
          /\ DownloadAfterException(RaisedByDownload(failure))
    /\ UNCHANGED dl_file
    /\ UNCHANGED notProviderDownloadVars

\* the answer holds no link: _download_with_retry returns False
DownloadNoLink ==
    /\ dlpc = "run"
    /\ EndedWith("no_link")
    /\ DownloadEnds("False")
    /\ UNCHANGED dl_file
    /\ UNCHANGED notProviderDownloadVars

\* requests.get(download_link) or raise_for_status raises
DownloadFetchFails ==
    /\ dlpc = "run"
    /\ \E failure \in FetchFailures :
          /\ EndedWith(failure)
          /\ DownloadAfterException(RaisedByDownload(failure))
    /\ UNCHANGED dl_file
    /\ UNCHANGED notProviderDownloadVars

\* makedirs or open raises (the file is as before), or write does (the file
\* was truncated by open)
DownloadWriteFails ==
    /\ dlpc = "run"
    /\ EndedWith("write_failed")
    /\ dl_file' \in {dl_file, Partial}
    /\ DownloadAfterException(RaisedByDownload("write_failed"))
    /\ UNCHANGED notProviderDownloadVars

\* the file is written: _download_with_retry returns True
DownloadWritten ==
    /\ dlpc = "run"
    /\ EndedWith("written")
    /\ dl_file' = Written
    /\ DownloadEnds("True")
    /\ UNCHANGED notProviderDownloadVars

NextProviderDownload ==
    \/ DownloadLinkFails
    \/ DownloadNoLink
    \/ DownloadFetchFails
    \/ DownloadWriteFails
    \/ DownloadWritten

SpecProviderDownload == ProviderDownloadSpecInit /\ [][NextProviderDownload]_vars

LastExecution == dl_log[Len(dl_log)]

\* C37: the provider's download never raises to its caller: a failure while
\* obtaining the link, fetching the file or writing it gives False; a
\* transport (HTTP or request) error is retried, up to 3 attempts in total.
C37_DownloadNeverRaisesAndRetriesTransport ==
    dlpc = "returned" =>
        /\ dl_return \in {"True", "False"}
        /\ dl_return = "True" <=> LastExecution = "written"
        /\ Len(dl_log) <= 3
        /\ \A k \in 1..(Len(dl_log) - 1) : dl_log[k] \in TransportFailures
        /\ LastExecution \in TransportFailures => Len(dl_log) = 3

\* what does hold: no raise, at most 3 executions, and exactly the failures
\* of fetching the file are followed by another execution
ProviderDownloadRetriesFetchOnly ==
    /\ dl_return # "raised"
    /\ Len(dl_log) <= 3
    /\ \A k \in 1..(Len(dl_log) - 1) : dl_log[k] \in FetchFailures
    /\ dlpc = "returned" =>
          /\ dl_return = "True" <=> LastExecution = "written"
          /\ LastExecution \in FetchFailures => Len(dl_log) = 3

----------------------------------------------------------------------------
(* download_subtitles invoked twice for the same media file, the second
   time right after the first returned, with release matching disabled.
   Nothing is kept between invocations but the files: the second invocation
   probes the file system anew. *)

AgainInit ==
    /\ PipeInit
    /\ ~settings.use_release_matching
    /\ invocation = 1
    /\ first_result = NoResult

AgainSpecInit ==
    /\ RetryInit
    /\ ScoreIdle
    /\ RankIdle
    /\ HookIdle
    /\ VerifyIdle
    /\ AuthIdle
    /\ SearchIdle
    /\ PoolIdle
    /\ RaceIdle
    /\ ExtractIdle
    /\ RequestIdle
    /\ ProviderDownloadIdle
    /\ AgainInit

\* the first invocation has returned; download_subtitles is called again
\* with the same arguments and the files as the first left them
InvokeAgain ==
    /\ invocation = 1
    /\ ppc = "done"
    /\ invocation' = 2
    /\ first_result' = result
    /\ ppc' = "idle"
    /\ fs0' = fs
    /\ existing' = [l \in LangSet |-> NoPath]
    /\ li' = 0
    /\ all_results' = <<>>
    /\ ci' = 0
    /\ dattempt' = 0
    /\ result' = NoResult
    /\ searches' = <<>>
    /\ downloaded' = {}
    /\ langStatus' = <<>>
    /\ UNCHANGED <<settings, fs>>
    /\ UNCHANGED <<retryVars, scoreVars, rankVars, hookVars, verifyVars, authVars,
                   searchVars, poolVars, raceVars, extractVars, requestVars,
                   providerDownloadVars>>

NextAgain ==
    \/ Start
    \/ TryLanguage
    \/ DownloadRaises
    \/ DownloadReturnsFalse
    \/ DownloadRejected
    \/ DownloadVerified
    \/ InvokeAgain

SpecAgain == AgainSpecInit /\ [][NextAgain]_vars

\* the first invocation acquired a subtitle for the primary language
FirstAcquiredPrimary ==
    /\ invocation = 2
    /\ first_result.success
    /\ first_result.language = settings.languages_list[1]

\* C38: with release matching disabled, after an invocation that returned
\* success for the primary language, the invocation that follows it makes no
\* provider call, writes and deletes nothing, and returns success = false with
\* existing equal to the path the first invocation wrote.
C38_SecondInvocationKeepsFirst ==
    FirstAcquiredPrimary =>
        /\ searches = <<>> /\ downloaded = {}
        /\ fs = fs0
        /\ ppc \in {"idle", "done"}
        /\ ppc = "done" =>
              /\ ~result.success
              /\ result.keys = {"success", "existing"}
              /\ result.existing = first_result.path

\* the second invocation has returned after the first one downloaded the
\* primary language
C38_Witness ==
    /\ FirstAcquiredPrimary /\ ppc = "done"
    /\ fs[first_result.path] \notin {Absent, Original}
    /\ result.existing = first_result.path
    /\ Len(settings.languages_list) = 2

====
